---- MODULE Spec2Model ----
(***************************************************************************)
(* PaperPostman: the storage layer (src/storage.py) and the paper pipeline *)
(* (src/paper_filter.py) as state machines.                                *)
(*                                                                         *)
(* Python values are modelled with their type: a str is a sequence of      *)
(* one-character strings, an optional value is a record [type, val], a     *)
(* datetime is an instant (an integer, 0 = 1970-01-01T00:00:00).           *)
(***************************************************************************)
EXTENDS Integers, Sequences, FiniteSets, TLC

VARIABLES
    files,       \* the file system: path -> file
    op,          \* the function called last ("start" before any call)
    papers,      \* its papers argument
    filepath,    \* its filepath argument (for the weekly calls: the path it built)
    date,        \* its date argument (weekly calls)
    keywords,    \* its keywords argument (filter_by_keywords)
    match_type,  \* its match_type argument (filter_by_keywords)
    sort_by,     \* its sort_by argument (sort_papers)
    reverse,     \* its reverse argument (sort_papers)
    prior,       \* append_papers: the file at filepath when the call began
    ret,         \* its return value
    exc,         \* the exception that escaped it ("none": it returned)
    args,        \* its other arguments, by parameter name
    run          \* main: its position, its local variables and its files

vars == <<files, op, papers, filepath, date, keywords, match_type, sort_by,
          reverse, prior, ret, exc, args, run>>

(***************************************************************************)
(* Bounds                                                                  *)
(***************************************************************************)
\* the longest list handed to save_papers / append_papers
MaxBatch == 2
\* append_papers is called on files of at most this many papers
MaxFileLen == 2
\* the longest list handed to save_weekly_papers
MaxWeeklyBatch == 1
\* the longest list handed to a pipeline stage
MaxPapers == 2
\* the longest keyword list
MaxKeywords == 2

\* all sequences over S of length at most n
SeqsUpTo(S, n) == UNION {[1..k -> S] : k \in 0..n}

(***************************************************************************)
(* Python values                                                           *)
(***************************************************************************)
None == [type |-> "NoneType", val |-> <<>>]
Str(s) == [type |-> "str", val |-> s]
Datetime(n) == [type |-> "datetime", val |-> <<n>>]

\* bool(v): None and "" are falsy, a datetime is always truthy
Truthy(v) ==
    CASE v.type = "NoneType" -> FALSE
      [] v.type = "str" -> v.val # <<>>
      [] OTHER -> TRUE

\* a paper dictionary: id and published_date are optional, the texts are str
Paper(id, title, summary, authors, published_date) ==
    [id |-> id, title |-> title, summary |-> summary, authors |-> authors,
     published_date |-> published_date]

(***************************************************************************)
(* storage.py: the persistence format                                      *)
(***************************************************************************)
\* datetime.isoformat(): a str; the ISO-8601 text of instant n is n under
\* the type str (isoformat is injective)
_json_serializer(obj) == [type |-> "str", val |-> obj.val]

\* json.dump(papers, default=_json_serializer): every datetime becomes the str
\* _json_serializer gives; str and None are JSON values already
json_dump(ps) ==
    [i \in DOMAIN ps |->
        [ps[i] EXCEPT !.published_date =
            IF @.type = "datetime" THEN _json_serializer(@) ELSE @]]

\* a path with no file
NoFile == [kind |-> "missing", data |-> <<>>]
\* a file holding a JSON array
ArrayFile(data) == [kind |-> "array", data |-> data]
\* a file whose write was cut short: not valid JSON
TruncatedFile == [kind |-> "invalid_json", data |-> <<>>]

\* the body of load_papers' try block: what it returns or raises
load_papers_try(file) ==
    CASE file.kind = "missing" -> [exc |-> "none", val |-> <<>>]
      [] file.kind = "unreadable" -> [exc |-> "OSError", val |-> <<>>]
      [] file.kind = "invalid_json" -> [exc |-> "JSONDecodeError", val |-> <<>>]
      [] file.kind = "non_array" -> [exc |-> "none", val |-> <<>>]
      [] OTHER -> [exc |-> "none", val |-> file.data]

\* a faulty variant of load_papers: no except clause
load_papers_no_except(file) == load_papers_try(file)

\* load_papers: except Exception -> []
load_papers(file) ==
    LET r == load_papers_try(file)
    IN  IF r.exc # "none" THEN [exc |-> "none", val |-> <<>>] ELSE r

\* a faulty variant of save_papers: the papers are written as they are in memory
save_papers_no_serializer(ps, file, fault) ==
    CASE fault = "open" -> [exc |-> "none", val |-> FALSE, file |-> file]
      [] fault = "dump" -> [exc |-> "none", val |-> FALSE, file |-> TruncatedFile]
      [] OTHER -> [exc |-> "none", val |-> TRUE, file |-> ArrayFile(ps)]

\* save_papers: fault "open" is makedirs/open raising (the file is untouched),
\* fault "dump" is the write raising after open() truncated the file; both are
\* caught and reported as False
save_papers(ps, file, fault) ==
    CASE fault = "open" -> [exc |-> "none", val |-> FALSE, file |-> file]
      [] fault = "dump" -> [exc |-> "none", val |-> FALSE, file |-> TruncatedFile]
      [] OTHER -> [exc |-> "none", val |-> TRUE, file |-> ArrayFile(json_dump(ps))]

\* the ids / titles of a list that are truthy (the seen_ids, seen_titles sets)
seen_ids_of(existing) ==
    {existing[i].id : i \in {j \in DOMAIN existing : Truthy(existing[j].id)}}
seen_titles_of(existing) ==
    {existing[i].title : i \in {j \in DOMAIN existing : existing[j].title # <<>>}}

\* a faulty variant of is_duplicate: a paper is skipped only when both axes match
is_duplicate_both(paper, seen_ids, seen_titles) ==
    /\ Truthy(paper.id) /\ paper.id \in seen_ids
    /\ paper.title # <<>> /\ paper.title \in seen_titles

\* a faulty variant of is_duplicate: only the id is looked at
is_duplicate_id_only(paper, seen_ids, seen_titles) ==
    Truthy(paper.id) /\ paper.id \in seen_ids

\* append_papers' test "skip if duplicate by ID or title"
is_duplicate(paper, seen_ids, seen_titles) ==
    \/ Truthy(paper.id) /\ paper.id \in seen_ids
    \/ paper.title # <<>> /\ paper.title \in seen_titles

\* a faulty variant of append_loop: an accepted paper is not added to the
\* seen sets, so a batch is only compared with the stored papers
RECURSIVE append_loop_stored_only(_, _, _, _, _)
append_loop_stored_only(ps, i, existing, seen_ids, seen_titles) ==
    IF i > Len(ps) THEN existing
    ELSE append_loop_stored_only(ps, i + 1,
             IF is_duplicate(ps[i], seen_ids, seen_titles)
             THEN existing ELSE Append(existing, ps[i]),
             seen_ids, seen_titles)

\* append_papers' loop over the new papers, from index i on
RECURSIVE append_loop(_, _, _, _, _)
append_loop(ps, i, existing, seen_ids, seen_titles) ==
    IF i > Len(ps) THEN existing
    ELSE IF is_duplicate(ps[i], seen_ids, seen_titles)
         THEN append_loop(ps, i + 1, existing, seen_ids, seen_titles)
         ELSE append_loop(ps, i + 1, Append(existing, ps[i]),
                          IF Truthy(ps[i].id) THEN seen_ids \cup {ps[i].id}
                                              ELSE seen_ids,
                          IF ps[i].title # <<>> THEN seen_titles \cup {ps[i].title}
                                                ELSE seen_titles)

\* a faulty variant of append_papers: the file is rewritten with the new papers only
append_papers_overwrite(ps, file, fault) ==
    save_papers(append_loop(ps, 1, <<>>, {}, {}), file, fault)

\* a faulty variant of append_papers: the new papers are written before the old
append_papers_prepend(ps, file, fault) ==
    LET existing == load_papers(file).val
        added == append_loop(ps, 1, existing, seen_ids_of(existing),
                             seen_titles_of(existing))
    IN  save_papers(SubSeq(added, Len(existing) + 1, Len(added)) \o existing,
                    file, fault)

\* append_papers: load, skip the duplicates, save the whole list
\* (an exception of the try block is caught and reported as False)
append_papers(ps, file, fault) ==
    LET loaded == load_papers(file)
        existing == loaded.val
    IN  IF loaded.exc # "none"
        THEN [exc |-> "none", val |-> FALSE, file |-> file]
        ELSE save_papers(append_loop(ps, 1, existing, seen_ids_of(existing),
                                     seen_titles_of(existing)),
                         file, fault)

(***************************************************************************)
(* storage.py: the weekly buckets                                          *)
(***************************************************************************)
\* a date is [year, month, day]; the run dates the model draws from
Ymd(y, m, d) == [year |-> y, month |-> m, day |-> d]
RunDates == {Ymd(2024, 1, 2), Ymd(2024, 12, 30), Ymd(2025, 1, 2), Ymd(2025, 1, 6)}

\* datetime: the proleptic Gregorian ordinal of a date (0001-01-01 is day 1)
is_leap(y) == y % 4 = 0 /\ (y % 100 # 0 \/ y % 400 = 0)
days_in_month(y, m) ==
    CASE m \in {4, 6, 9, 11} -> 30
      [] m = 2 -> IF is_leap(y) THEN 29 ELSE 28
      [] OTHER -> 31
RECURSIVE days_before_month(_, _)
days_before_month(y, m) ==
    IF m = 1 THEN 0 ELSE days_before_month(y, m - 1) + days_in_month(y, m - 1)
days_before_year(y) ==
    (y - 1) * 365 + (y - 1) \div 4 - (y - 1) \div 100 + (y - 1) \div 400
ymd2ord(y, m, d) == days_before_year(y) + days_before_month(y, m) + d

\* datetime: the ordinal of the Monday that starts ISO week 1 of a year
isoweek1monday(y) ==
    LET firstday == ymd2ord(y, 1, 1)
        firstweekday == (firstday + 6) % 7
        week1monday == firstday - firstweekday
    IN  IF firstweekday > 3 THEN week1monday + 7 ELSE week1monday

\* date.isocalendar(): [year, week] of the ISO 8601 week the date lies in
isocalendar(dt) ==
    LET today == ymd2ord(dt.year, dt.month, dt.day)
        week == (today - isoweek1monday(dt.year)) \div 7
    IN  IF today < isoweek1monday(dt.year)
        THEN [year |-> dt.year - 1,
              week |-> (today - isoweek1monday(dt.year - 1)) \div 7 + 1]
        ELSE IF week >= 52 /\ today >= isoweek1monday(dt.year + 1)
             THEN [year |-> dt.year + 1, week |-> 1]
             ELSE [year |-> dt.year, week |-> week + 1]

\* a faulty variant of weekly_path: the directory is the ISO year
weekly_path_iso(dt) == isocalendar(dt)

\* the bucket file save_weekly_papers and load_weekly_papers build from a
\* date: <weekly_dir>/<date.year>/week_<isocalendar week, two digits>.json
weekly_path(dt) == [year |-> dt.year, week |-> isocalendar(dt).week]

\* weekly_path over the run dates, computed once
BucketOf == [d \in RunDates |-> weekly_path(d)]

\* every bucket file a run date can name
Paths == {BucketOf[d] : d \in RunDates}

\* save_weekly_papers: append_papers on the date's bucket file
save_weekly_papers(ps, fs, dt, fault) ==
    append_papers(ps, fs[BucketOf[dt]], fault)

\* load_weekly_papers: load_papers on the date's bucket file
load_weekly_papers(fs, dt) == load_papers(fs[BucketOf[dt]])

(***************************************************************************)
(* Python str operations, over the characters the model uses               *)
(***************************************************************************)
\* str.lower() on one character
lower_char(c) ==
    CASE c = "A" -> "a"
      [] c = "B" -> "b"
      [] c = "T" -> "t"
      [] c = "U" -> "u"
      [] OTHER -> c
\* str.lower()
lower(s) == [i \in DOMAIN s |-> lower_char(s[i])]

\* \s and \w of the re module
is_space(c) == c = " "
is_word(c) == c \in {"a", "b", "c", "t", "u", "A", "B", "T", "U"}

\* str.strip()
RECURSIVE lstrip(_)
lstrip(s) == IF s # <<>> /\ is_space(Head(s)) THEN lstrip(Tail(s)) ELSE s
RECURSIVE rstrip(_)
rstrip(s) ==
    IF s # <<>> /\ is_space(s[Len(s)]) THEN rstrip(SubSeq(s, 1, Len(s) - 1)) ELSE s
strip(s) == rstrip(lstrip(s))

\* ord(c)
ord(c) ==
    CASE c = " " -> 32
      [] c = "," -> 44
      [] c = "-" -> 45
      [] c = "A" -> 65
      [] c = "B" -> 66
      [] c = "T" -> 84
      [] c = "U" -> 85
      [] c = "a" -> 97
      [] c = "b" -> 98
      [] c = "c" -> 99
      [] c = "t" -> 116
      [] OTHER -> 117

\* a <= b for two str (lexicographic on the code points)
RECURSIVE str_le(_, _)
str_le(a, b) ==
    IF a = <<>> THEN TRUE
    ELSE IF b = <<>> THEN FALSE
    ELSE IF ord(Head(a)) < ord(Head(b)) THEN TRUE
    ELSE IF ord(Head(a)) > ord(Head(b)) THEN FALSE
    ELSE str_le(Tail(a), Tail(b))

\* ', '.join(authors)
RECURSIVE join(_)
join(names) ==
    IF names = <<>> THEN <<>>
    ELSE IF Len(names) = 1 THEN names[1]
    ELSE names[1] \o <<",", " ">> \o join(Tail(names))

\* a faulty variant of contains: kw must be a whole space-delimited token of text
contains_token(kw, text) ==
    \E i \in 1..(Len(text) - Len(kw) + 1) :
        /\ SubSeq(text, i, i + Len(kw) - 1) = kw
        /\ i = 1 \/ is_space(text[i - 1])
        /\ i + Len(kw) - 1 = Len(text) \/ is_space(text[i + Len(kw)])

\* kw in text
contains(kw, text) ==
    \E i \in 1..(Len(text) - Len(kw) + 1) : SubSeq(text, i, i + Len(kw) - 1) = kw

(***************************************************************************)
(* paper_filter.py                                                         *)
(***************************************************************************)
\* a faulty variant of non_blank: the keyword is tested before it is trimmed
non_blank_untrimmed(kw) == kw # <<>>

\* filter_by_keywords: the keywords it matches with
\* [kw.strip().lower() for kw in keywords if kw.strip()]
non_blank(kw) == strip(kw) # <<>>
prepare_keywords(kws) ==
    LET kept == SelectSeq(kws, non_blank)
    IN  [i \in DOMAIN kept |-> lower(strip(kept[i]))]

\* filter_by_keywords: the text of a paper it matches against
\* re.sub(r'[^\w\s]', ' ', (title + ' ' + summary).lower())
text_clean(paper) ==
    LET text == lower(paper.title \o <<" ">> \o paper.summary)
    IN  [i \in DOMAIN text |->
            IF is_word(text[i]) \/ is_space(text[i]) THEN text[i] ELSE " "]

\* filter_by_keywords: whether the loop appends the paper
keyword_match(paper, kws, mt) ==
    CASE mt = "any" -> \E k \in DOMAIN kws : contains(kws[k], text_clean(paper))
      [] mt = "all" -> \A k \in DOMAIN kws : contains(kws[k], text_clean(paper))
      [] OTHER -> FALSE

\* filter_by_keywords: the loop over the papers, from index i on
RECURSIVE filter_loop(_, _, _, _, _)
filter_loop(ps, i, kws, mt, filtered) ==
    IF i > Len(ps) THEN filtered
    ELSE filter_loop(ps, i + 1, kws, mt,
                     IF keyword_match(ps[i], kws, mt)
                     THEN Append(filtered, ps[i]) ELSE filtered)

\* a faulty variant of filter_by_keywords: no early return for an empty list
filter_by_keywords_no_return(ps, kws, mt) ==
    filter_loop(ps, 1, prepare_keywords(kws), mt, <<>>)

\* filter_by_keywords(papers, keywords, match_type)
filter_by_keywords(ps, kws, mt) ==
    IF kws = <<>> THEN ps
    ELSE filter_loop(ps, 1, prepare_keywords(kws), mt, <<>>)

\* datetime(1970, 1, 1), as an instant
Epoch == 0

\* a faulty variant of date_key: a missing date sorts as the newest instant
date_key_newest(paper) ==
    IF Truthy(paper.published_date) THEN paper.published_date.val[1] ELSE 1000

\* sort_papers: the key of sort_by = "date": the published_date or the epoch
date_key(paper) ==
    IF Truthy(paper.published_date) THEN paper.published_date.val[1] ELSE Epoch

\* key(p) <= key(q) for the key sort_by selects
key_le(sb, p, q) ==
    CASE sb = "date" -> date_key(p) <= date_key(q)
      [] sb = "title" -> str_le(lower(p.title), lower(q.title))
      [] OTHER -> str_le(lower(join(p.authors)), lower(join(q.authors)))

\* a faulty variant of sorted: reverse is done by reversing the ascending
\* order, so with reverse a paper goes before the papers of equal key
RECURSIVE sorted_reversed_ties(_, _, _, _, _)
sorted_reversed_ties(ps, i, sb, rev, out) ==
    IF i > Len(ps) THEN out
    ELSE LET x == ps[i]
             n == Cardinality({j \in DOMAIN out :
                      IF rev THEN ~ key_le(sb, out[j], x) ELSE key_le(sb, out[j], x)})
         IN  sorted_reversed_ties(ps, i + 1, sb, rev,
                    SubSeq(out, 1, n) \o <<x>> \o SubSeq(out, n + 1, Len(out)))

\* sorted(papers, key, reverse): a stable sort, by insertion: a paper goes
\* behind the papers that do not sort after it, so equal keys keep their input
\* order for either value of reverse
RECURSIVE sorted(_, _, _, _, _)
sorted(ps, i, sb, rev, out) ==
    IF i > Len(ps) THEN out
    ELSE LET x == ps[i]
             n == Cardinality({j \in DOMAIN out :
                      IF rev THEN key_le(sb, x, out[j]) ELSE key_le(sb, out[j], x)})
         IN  sorted(ps, i + 1, sb, rev,
                    SubSeq(out, 1, n) \o <<x>> \o SubSeq(out, n + 1, Len(out)))

\* a faulty variant of sort_papers: a key it does not know is sorted on as well
sort_papers_any_key(ps, sb, rev) == sorted(ps, 1, sb, rev, <<>>)

\* sort_papers(papers, sort_by, reverse)
sort_papers(ps, sb, rev) ==
    IF sb \in {"date", "title", "authors"} THEN sorted(ps, 1, sb, rev, <<>>) ELSE ps

\* a faulty variant of dedup_key: the title comes first, the id is the fallback
dedup_key_title_first(paper) ==
    IF strip(lower(paper.title)) # <<>> THEN strip(lower(paper.title))
    ELSE IF Truthy(paper.id) THEN paper.id.val ELSE <<>>

\* deduplicate_papers: the key of a paper: its id, or without one its
\* lower-cased, stripped title
dedup_key(paper) ==
    IF Truthy(paper.id) THEN paper.id.val ELSE strip(lower(paper.title))

\* a faulty variant of dedup_keep: a later paper replaces the one kept for its key
dedup_keep_last(key, seen, deduplicated, paper) ==
    IF key = <<>> THEN deduplicated
    ELSE Append(SelectSeq(deduplicated, LAMBDA q : dedup_key(q) # key), paper)

\* a faulty variant of dedup_keep: the key is not tested for emptiness
dedup_keep_any_key(key, seen, deduplicated, paper) ==
    IF key \notin seen THEN Append(deduplicated, paper) ELSE deduplicated

\* deduplicate_papers: "if key and key not in seen: deduplicated.append(paper)"
dedup_keep(key, seen, deduplicated, paper) ==
    IF key # <<>> /\ key \notin seen THEN Append(deduplicated, paper)
    ELSE deduplicated

\* deduplicate_papers: the loop over the papers, from index i on
RECURSIVE dedup_loop(_, _, _, _)
dedup_loop(ps, i, seen, deduplicated) ==
    IF i > Len(ps) THEN deduplicated
    ELSE LET key == dedup_key(ps[i])
         IN  dedup_loop(ps, i + 1,
                        IF key # <<>> /\ key \notin seen THEN seen \cup {key} ELSE seen,
                        dedup_keep(key, seen, deduplicated, ps[i]))

\* deduplicate_papers(papers)
deduplicate_papers(ps) == dedup_loop(ps, 1, {}, <<>>)

(***************************************************************************)
(* The storage layer as a state machine                                    *)
(***************************************************************************)
\* the papers the storage calls are given: ids x, y or none, titles T, U or
\* empty, a publication date on some
IdX == Str(<<"x">>)
IdY == Str(<<"y">>)
TitleT == <<"T">>
TitleU == <<"U">>
StoragePapers ==
    {Paper(IdX, TitleT, <<>>, <<>>, Datetime(1)),
     Paper(IdX, TitleU, <<>>, <<>>, None),
     Paper(IdY, TitleT, <<>>, <<>>, None),
     Paper(None, TitleT, <<>>, <<>>, None),
     Paper(None, <<>>, <<>>, <<>>, None)}
WeeklyPapers ==
    {Paper(IdX, TitleT, <<>>, <<>>, Datetime(1)),
     Paper(IdY, TitleU, <<>>, <<>>, None)}

\* the file the storage primitives are called on in Spec
StoragePaths == {BucketOf[Ymd(2025, 1, 2)]}

\* what a write can run into
Faults == {"none", "open", "dump"}
\* what a file can be turned into from outside the program
DamagedKinds == {"unreadable", "invalid_json", "non_array"}

\* the arguments the storage calls do not have
NoArgs ==
    /\ keywords' = <<>>
    /\ match_type' = "any"
    /\ sort_by' = "date"
    /\ reverse' = TRUE
    /\ UNCHANGED <<args, run>>

\* The callers read a file back after writing it (main reads the bucket on
\* the next run): a write call follows the start, a read or an outside change.
\* A read leaves the files alone, so this loses no state of the file system.
CanWrite == op \in {"start", "load_papers", "load_weekly_papers", "external"}

InitCommon ==
    /\ op = "start"
    /\ papers = <<>>
    /\ date = Ymd(2025, 1, 2)
    /\ keywords = <<>>
    /\ match_type = "any"
    /\ sort_by = "date"
    /\ reverse = TRUE
    /\ prior = NoFile
    /\ ret = <<>>
    /\ exc = "none"
    /\ args = <<>>
    /\ run = <<>>

Init ==
    /\ InitCommon
    /\ files = [p \in Paths |-> NoFile]
    /\ filepath \in StoragePaths

\* save_papers(ps, path)
SavePapers ==
    \E ps \in SeqsUpTo(StoragePapers, MaxBatch), path \in StoragePaths,
       fault \in Faults :
        LET r == save_papers(ps, files[path], fault)
        IN  /\ CanWrite
            /\ Len(files[path].data) <= MaxFileLen
            /\ files' = [files EXCEPT ![path] = r.file]
            /\ op' = "save_papers"
            /\ papers' = ps
            /\ filepath' = path
            /\ prior' = NoFile
            /\ ret' = r.val
            /\ exc' = r.exc
            /\ NoArgs
            /\ UNCHANGED date

\* append_papers(ps, path)
AppendPapers ==
    \E ps \in SeqsUpTo(StoragePapers, MaxBatch), path \in StoragePaths,
       fault \in Faults :
        LET r == append_papers(ps, files[path], fault)
        IN  /\ CanWrite
            /\ Len(files[path].data) <= MaxFileLen
            /\ files' = [files EXCEPT ![path] = r.file]
            /\ op' = "append_papers"
            /\ papers' = ps
            /\ filepath' = path
            /\ prior' = files[path]
            /\ ret' = r.val
            /\ exc' = r.exc
            /\ NoArgs
            /\ UNCHANGED date

\* load_papers(path)
LoadPapers(paths) ==
    \E path \in paths :
        LET r == load_papers(files[path])
        IN  /\ op' = "load_papers"
            /\ papers' = <<>>
            /\ filepath' = path
            /\ prior' = NoFile
            /\ ret' = r.val
            /\ exc' = r.exc
            /\ NoArgs
            /\ UNCHANGED <<files, date>>

\* the file at a path is damaged or removed from outside the program
ExternalChange(paths) ==
    \E path \in paths, kind \in DamagedKinds \cup {"missing"} :
        /\ op \in {"start", "load_papers", "load_weekly_papers"}
        /\ files' = [files EXCEPT ![path] = [kind |-> kind, data |-> <<>>]]
        /\ op' = "external"
        /\ papers' = <<>>
        /\ filepath' = path
        /\ prior' = NoFile
        /\ ret' = <<>>
        /\ exc' = "none"
        /\ NoArgs
        /\ UNCHANGED date

LoadStored == LoadPapers(StoragePaths)
DamageStored == ExternalChange(StoragePaths)

Next == SavePapers \/ AppendPapers \/ LoadStored \/ DamageStored

Spec == Init /\ [][Next]_vars

(***************************************************************************)
(* The weekly buckets as a state machine                                   *)
(***************************************************************************)
InitWeekly ==
    /\ InitCommon
    /\ files = [p \in Paths |-> NoFile]
    /\ filepath = BucketOf[date]

\* save_weekly_papers(ps, weekly_dir, dt)
SaveWeeklyPapers ==
    \E ps \in SeqsUpTo(WeeklyPapers, MaxWeeklyBatch), dt \in RunDates,
       fault \in Faults :
        LET r == save_weekly_papers(ps, files, dt, fault)
        IN  /\ CanWrite
            /\ files' = [files EXCEPT ![BucketOf[dt]] = r.file]
            /\ op' = "save_weekly_papers"
            /\ papers' = ps
            /\ date' = dt
            /\ filepath' = BucketOf[dt]
            /\ prior' = files[BucketOf[dt]]
            /\ ret' = r.val
            /\ exc' = r.exc
            /\ NoArgs

\* load_weekly_papers(weekly_dir, dt)
LoadWeeklyPapers ==
    \E dt \in RunDates :
        LET r == load_weekly_papers(files, dt)
        IN  /\ op' = "load_weekly_papers"
            /\ papers' = <<>>
            /\ date' = dt
            /\ filepath' = BucketOf[dt]
            /\ prior' = NoFile
            /\ ret' = r.val
            /\ exc' = r.exc
            /\ NoArgs
            /\ UNCHANGED files

LoadBucket == LoadPapers(Paths)
DamageBucket == ExternalChange(Paths)

NextWeekly == SaveWeeklyPapers \/ LoadWeeklyPapers \/ LoadBucket \/ DamageBucket

SpecWeekly == InitWeekly /\ [][NextWeekly]_vars

(***************************************************************************)
(* Claims on the storage layer                                             *)
(***************************************************************************)
\* the papers of a list
Range(s) == {s[i] : i \in DOMAIN s}

\* the papers of s at the indices in S, in s's order
RECURSIVE SubAt(_, _, _)
SubAt(s, S, i) ==
    IF i > Len(s) THEN <<>>
    ELSE (IF i \in S THEN <<s[i]>> ELSE <<>>) \o SubAt(s, S, i + 1)

\* p and q share a truthy id, or share a non-empty title
SameId(p, q) == Truthy(p.id) /\ p.id = q.id
SameTitle(p, q) == p.title # <<>> /\ p.title = q.title
Matches(p, q) == SameId(p, q) \/ SameTitle(p, q)

\* what load_papers returns for the file the last call was given
StoredNow == load_papers(files[filepath]).val
\* what append_papers added behind the papers it found
AddedNow == SubSeq(StoredNow, Len(prior.data) + 1, Len(StoredNow))

\* an append_papers call that found a readable array and wrote its result
AppendDone == op = "append_papers" /\ ret = TRUE /\ prior.kind = "array"

\* C1 (as claimed): the bucket is keyed by the ISO (year, week) of the run
\* date: every run date in the same ISO week as the date just written names
\* the file just written, and load_weekly_papers for it reads that file.
C1_BucketKeyedByIsoWeek ==
    op = "save_weekly_papers" =>
        \A d \in RunDates :
            isocalendar(d) = isocalendar(date) =>
                /\ BucketOf[d] = filepath
                /\ load_weekly_papers(files, d).val = StoredNow

\* the indices of N whose paper has an id no paper of E has and no earlier
\* paper of N has
NewById(N, E) ==
    {i \in DOMAIN N :
        /\ \A q \in Range(E) : q.id # N[i].id
        /\ \A k \in 1..(i - 1) : N[k].id # N[i].id}

IsAccepted(S, N, E) ==
    \A i \in DOMAIN N :
        i \in S <=>
            ~ \E q \in Range(E) \cup {N[k] : k \in {j \in S : j < i}} :
                Matches(N[i], q)

C3_RejectsOnEitherAxis ==
    AppendDone =>
        /\ \A k \in DOMAIN AddedNow :
            \A q \in Range(prior.data) : ~ Matches(AddedNow[k], q)
        /\ \A i \in DOMAIN papers :
            (\A q \in Range(prior.data) \cup {papers[k] : k \in DOMAIN papers \ {i}} :
                ~ Matches(papers[i], q))
                => \E k \in DOMAIN AddedNow : AddedNow[k] = json_dump(<<papers[i]>>)[1]

\* C3 witness: of two new papers one shares only its id with a stored paper
\* and the other only its title, and neither is appended
C3_Witness ==
    /\ AppendDone
    /\ Len(papers) = 2
    /\ AddedNow = <<>>
    /\ \E q \in Range(prior.data) :
        SameId(papers[1], q) /\ ~ SameTitle(papers[1], q)
    /\ \A q \in Range(prior.data) : ~ SameTitle(papers[1], q)
    /\ \E q \in Range(prior.data) :
        SameTitle(papers[2], q) /\ ~ SameId(papers[2], q)
    /\ \A q \in Range(prior.data) : ~ SameId(papers[2], q)

\* C9 (as claimed): save_papers followed by load_papers on the same path
\* returns the papers that were saved, with the same field values.
C9_SaveLoadRoundTrip ==
    (op = "save_papers" /\ ret = TRUE) => StoredNow = papers

\* C10: a read never raises: load_papers and load_weekly_papers return the
\* empty list for a file that is missing, unreadable, not JSON or not an
\* array; append_papers on such a file writes what it writes on no file.
C10_ReadNeverRaises ==
    /\ op \in {"load_papers", "load_weekly_papers"} =>
        /\ exc = "none"
        /\ files[filepath].kind # "array" => ret = <<>>
        /\ files[filepath].kind = "array" => ret = files[filepath].data
    /\ (op = "save_weekly_papers" /\ prior.kind # "array") =>
        /\ exc = "none"
        /\ ret = TRUE =>
            files[filepath] = append_papers(papers, NoFile, "none").file

\* C10 witness: load_weekly_papers on a damaged bucket file returned []
C10_Witness ==
    /\ op = "load_weekly_papers"
    /\ files[filepath].kind \in DamagedKinds
    /\ ret = <<>>
    /\ exc = "none"

(***************************************************************************)
(* The pipeline stages: the inputs are drawn, a stage is applied           *)
(***************************************************************************)
\* the papers deduplicate_papers is given: no id, an empty id or an id; an
\* empty or blank title, titles that differ in case and blanks only, others
DedupPapers ==
    {Paper(id, title, <<>>, <<>>, None) :
        id \in {None, Str(<<>>), IdX, IdY, Str(<<"t">>)},
        title \in {<<>>, <<" ">>, TitleT, <<"t", " ">>, TitleU}}

\* the papers filter_by_keywords is given, as title and summary
KeywordPapers ==
    {Paper(None, <<"A", "b">>, <<>>, <<>>, None),
     Paper(None, <<"a", "-", "b">>, <<"c">>, <<>>, None),
     Paper(None, <<"a">>, <<"b">>, <<>>, None),
     Paper(None, <<>>, <<>>, <<>>, None),
     Paper(None, <<"c">>, <<"B">>, <<>>, None)}
\* the keywords: empty, blank, plain, upper case with a blank, with an inner
\* blank, with punctuation
Keywords ==
    {<<>>, <<" ">>, <<"a", "b">>, <<"B", " ">>, <<"a", " ", "b">>, <<"a", "-", "b">>}
MatchTypes == {"any", "all", "exact"}

\* the papers sort_papers is given: no date, dates before, at and after the
\* epoch, under two titles and author lists
SortPapers ==
    {Paper(None, title, <<>>, IF title = <<"a">> THEN <<<<"b">>, <<"A">>>> ELSE <<<<"B">>>>,
           published_date) :
        title \in {<<"a">>, <<"B">>},
        published_date \in {None, Datetime(-1), Datetime(Epoch), Datetime(1)}}
SortKeys == {"date", "title", "authors", "relevance"}

InitStage(pool) ==
    /\ op = "start"
    /\ papers \in SeqsUpTo(pool, MaxPapers)
    /\ files = [p \in Paths |-> NoFile]
    /\ filepath \in StoragePaths
    /\ date = Ymd(2025, 1, 2)
    /\ keywords = <<>>
    /\ match_type = "any"
    /\ sort_by = "date"
    /\ reverse = TRUE
    /\ prior = NoFile
    /\ ret = <<>>
    /\ exc = "none"
    /\ args = <<>>
    /\ run = <<>>

\* deduplicate_papers(papers)
DeduplicatePapers ==
    /\ op = "start"
    /\ op' = "deduplicate_papers"
    /\ ret' = deduplicate_papers(papers)
    /\ UNCHANGED <<files, papers, filepath, date, keywords, match_type, sort_by,
                   reverse, prior, exc, args, run>>

InitDedup == InitStage(DedupPapers)
SpecDedup == InitDedup /\ [][DeduplicatePapers]_vars

\* filter_by_keywords(papers, kws, mt)
FilterByKeywords ==
    \E kws \in SeqsUpTo(Keywords, MaxKeywords), mt \in MatchTypes :
        /\ op = "start"
        /\ op' = "filter_by_keywords"
        /\ keywords' = kws
        /\ match_type' = mt
        /\ ret' = filter_by_keywords(papers, kws, mt)
        /\ UNCHANGED <<files, papers, filepath, date, sort_by, reverse, prior, exc,
                       args, run>>

InitKeywords == InitStage(KeywordPapers)
SpecKeywords == InitKeywords /\ [][FilterByKeywords]_vars

\* sort_papers(papers, sb, rev)
SortPapersBy ==
    \E sb \in SortKeys, rev \in BOOLEAN :
        /\ op = "start"
        /\ op' = "sort_papers"
        /\ sort_by' = sb
        /\ reverse' = rev
        /\ ret' = sort_papers(papers, sb, rev)
        /\ UNCHANGED <<files, papers, filepath, date, keywords, match_type, prior, exc,
                       args, run>>

InitSort == InitStage(SortPapers)
SpecSort == InitSort /\ [][SortPapersBy]_vars

(***************************************************************************)
(* Claims on the pipeline stages                                           *)
(***************************************************************************)
\* s is t with some papers left out, the others in t's order
IsSubsequence(s, t) == \E S \in SUBSET DOMAIN t : s = SubAt(t, S, 1)

\* the identity key as the specification states it: the id when it is
\* truthy, otherwise the lower-cased trimmed title
IdentityKey(p) == IF Truthy(p.id) THEN p.id.val ELSE strip(lower(p.title))

\* the indices of xs whose paper is the first of xs with its identity key
FirstOfKey(xs) ==
    {i \in DOMAIN xs : \A k \in 1..(i - 1) : IdentityKey(xs[k]) # IdentityKey(xs[i])}

DedupDone == op = "deduplicate_papers"

C5_KeyIsIdElseTitle ==
    (DedupDone /\ Len(papers) = 2) =>
        LET p == papers[1]
            q == papers[2]
        IN  /\ (Truthy(p.id) /\ Truthy(q.id) /\ p.id # q.id /\ p.title = q.title)
                => ret = <<p, q>>
            /\ (Truthy(p.id) /\ p.id = q.id /\ p.title # q.title) => ret = <<p>>
            /\ (~ Truthy(p.id) /\ ~ Truthy(q.id) /\ strip(lower(p.title)) # <<>>)
                => ret = IF strip(lower(p.title)) = strip(lower(q.title))
                         THEN <<p>> ELSE <<p>> \o deduplicate_papers(<<q>>)

\* C5 witness: the same truthy id under different titles, reduced to the first
C5_Witness ==
    /\ DedupDone
    /\ Len(papers) = 2
    /\ Truthy(papers[1].id)
    /\ papers[1].id = papers[2].id
    /\ papers[1].title # papers[2].title
    /\ papers[1].title # <<>>
    /\ ret = <<papers[1]>>

FilterDone == op = "filter_by_keywords"

\* C6: filter_by_keywords with an empty keyword list returns its input
\* unchanged, for every input list and match_type.
C6_EmptyKeywordsIsIdentity == (FilterDone /\ keywords = <<>>) => ret = papers

\* C6 witness: a non-empty list filtered with no keywords, match_type "all"
C6_Witness ==
    /\ FilterDone
    /\ keywords = <<>>
    /\ match_type = "all"
    /\ Len(papers) = 2
    /\ ret = papers

\* kw occurs in text as a run of consecutive characters
HasSubstring(kw, text) ==
    \E i \in 0..(Len(text) - Len(kw)) :
        \A k \in 1..Len(kw) : text[i + k] = kw[k]

\* the indices of the papers whose cleaned text has one / every keyword of kws
MatchingPapers(kws, mt) ==
    {i \in DOMAIN papers :
        IF mt = "any"
        THEN \E k \in DOMAIN kws : HasSubstring(kws[k], text_clean(papers[i]))
        ELSE \A k \in DOMAIN kws : HasSubstring(kws[k], text_clean(papers[i]))}

\* C7 (as claimed): with a non-empty keyword list the result is the papers,
\* in order, whose cleaned lower-cased text contains as a substring at least
\* one keyword ("any") or every keyword ("all").  Stated for keyword lists
\* with no blank keyword, the weakest reading of the claim.
C7_KeepsPapersContainingKeyword ==
    (/\ FilterDone
     /\ keywords # <<>>
     /\ match_type \in {"any", "all"}
     /\ \A k \in DOMAIN keywords : \E i \in DOMAIN keywords[k] : keywords[k][i] # " ") =>
        ret = SubAt(papers, MatchingPapers(keywords, match_type), 1)

\* the keywords trimmed and lower-cased, the blank ones left out
TrimmedKeywords ==
    LET S == {k \in DOMAIN keywords : \E i \in DOMAIN keywords[k] : keywords[k][i] # " "}
        kept == SubAt(keywords, S, 1)
    IN  [k \in DOMAIN kept |-> lower(strip(kept[k]))]

\* C7 (amended): with a non-empty keyword list the result is the papers, in
\* order, whose cleaned lower-cased text contains as a substring (not as a
\* whole token) at least one ("any") or every ("all") keyword, the keywords
\* being trimmed and lower-cased first and the blank ones left out.
C7_KeepsPapersContainingTrimmedKeyword ==
    (FilterDone /\ keywords # <<>> /\ match_type \in {"any", "all"}) =>
        ret = SubAt(papers, MatchingPapers(TrimmedKeywords, match_type), 1)

\* C7 witness: the keyword "B " keeps the paper titled "Ab", inside whose text
\* it occurs, and drops a paper with no b
C7_Witness ==
    /\ FilterDone
    /\ keywords = <<(<<"B", " ">>)>>
    /\ match_type = "any"
    /\ Len(papers) = 2
    /\ papers[1].title = <<"A", "b">>
    /\ papers[2].title = <<>>
    /\ ret = <<papers[1]>>

SortByDateDone == op = "sort_papers" /\ sort_by = "date" /\ reverse = TRUE

HasDate(p) == p.published_date.type = "datetime"
DateOf(p) == p.published_date.val[1]

\* the number of times a paper occurs in a list
Count(s, p) == Cardinality({i \in DOMAIN s : s[i] = p})
IsPermutation(s, t) ==
    Len(s) = Len(t) /\ \A p \in Range(s) \cup Range(t) : Count(s, p) = Count(t, p)

ConferencePaper(id, title, summary, authors, published_date, conference) ==
    [id |-> id, title |-> title, summary |-> summary, authors |-> authors,
     published_date |-> published_date, conference |-> conference]

\* s[:n] for n >= 0
Take(s, n) == SubSeq(s, 1, IF n < Len(s) THEN n ELSE Len(s))

\* str(n) for the numbers a document of the model shows
str_of_int(n) ==
    CASE n = 0 -> <<"0">>
      [] n = 1 -> <<"1">>
      [] n = 2 -> <<"2">>
      [] n = 3 -> <<"3">>
      [] OTHER -> <<"4">>

\* published_date.strftime('%Y-%m-%d') for an instant within a day of the
\* epoch: the day before it or the day of it
strftime_ymd(n) ==
    IF n < 0 THEN <<"1", "9", "6", "9", "-", "1", "2", "-", "3", "1">>
    ELSE <<"1", "9", "7", "0", "-", "0", "1", "-", "0", "1">>

\* one piece of the document: the f-string it comes from and the values put
\* into it, in order
Line(text, data) == [text |-> text, data |-> data]

\* a faulty variant of author_list: five names are shown whatever max_display is
author_list_five(authors, max_display) ==
    IF Len(authors) > 5
    THEN join(Take(authors, 5)) \o <<" ", "e", "t", " ", "a", "l", ".">>
    ELSE join(authors)

\* the author list of an entry: the first max_display names, joined, with
\* ' et al.' behind them when there are more
author_list(authors, max_display) ==
    IF Len(authors) > max_display
    THEN join(Take(authors, max_display)) \o <<" ", "e", "t", " ", "a", "l", ".">>
    ELSE join(Take(authors, max_display))

\* _generate_latest_news_section: the entry of papers[i] (the affiliations,
\* categories and link lines belong to keys a paper of the model does not have)
latest_news_entry(ps, i) ==
    <<Line("### {i}. {paper['title']}\n\n", <<str_of_int(i), ps[i].title>>)>>
    \o (IF ps[i].authors # <<>>
        THEN <<Line("**Authors:** {author_list}\n\n", <<author_list(ps[i].authors, 5)>>)>>
        ELSE <<>>)
    \o (IF Truthy(ps[i].published_date)
        THEN <<Line("**Published:** {published_date.strftime('%Y-%m-%d')}\n\n",
                    <<strftime_ymd(ps[i].published_date.val[1])>>)>>
        ELSE <<>>)
    \o (IF Truthy(ps[i].conference)
        THEN <<Line("**Conference:** {conference}\n\n", <<ps[i].conference.val>>)>>
        ELSE <<>>)
    \o (IF ps[i].summary # <<>>
        THEN <<Line("{summary}\n\n", <<ps[i].summary>>)>>
        ELSE <<>>)
    \o <<Line("---\n\n", <<>>)>>

\* _generate_latest_news_section: the loop over the papers, from index i on
RECURSIVE latest_news_loop(_, _)
latest_news_loop(ps, i) ==
    IF i > Len(ps) THEN <<>>
    ELSE latest_news_entry(ps, i) \o latest_news_loop(ps, i + 1)

\* _generate_latest_news_section(papers)
_generate_latest_news_section(ps) ==
    <<Line("\n## Latest News\n\n", <<>>)>>
    \o (IF ps = <<>>
        THEN <<Line("*No new papers matching your keywords found today.*\n\n", <<>>)>>
        ELSE <<Line("*{len(papers)} papers found matching your keywords.*\n\n",
                    <<str_of_int(Len(ps))>>)>>
             \o latest_news_loop(ps, 1))

\* _generate_daily_recommendation_section: the entry of a paper
daily_recommendation_entry(paper) ==
    <<Line("### * {paper['title']}\n\n", <<paper.title>>)>>
    \o (IF paper.authors # <<>>
        THEN <<Line("**Authors:** {author_list}\n\n", <<author_list(paper.authors, 3)>>)>>
        ELSE <<>>)
    \o (IF Truthy(paper.conference)
        THEN <<Line("**Conference:** {conference}\n\n", <<paper.conference.val>>)>>
        ELSE <<>>)
    \o (IF paper.summary # <<>>
        THEN <<Line("{summary}\n\n", <<paper.summary>>)>>
        ELSE <<>>)

\* _generate_daily_recommendation_section: the loop over the papers
RECURSIVE daily_recommendation_loop(_, _)
daily_recommendation_loop(ps, i) ==
    IF i > Len(ps) THEN <<>>
    ELSE daily_recommendation_entry(ps[i]) \o daily_recommendation_loop(ps, i + 1)

\* _generate_daily_recommendation_section(papers)
_generate_daily_recommendation_section(ps) ==
    <<Line("\n## Daily Recommendation\n\n", <<>>)>>
    \o (IF ps = <<>>
        THEN <<Line("*No daily recommendation available.*\n\n", <<>>)>>
        ELSE daily_recommendation_loop(ps, 1) \o <<Line("---\n\n", <<>>)>>)

\* _generate_weekly_summary_section(summary); today is datetime.now() as
\* '%Y-%m-%d'
_generate_weekly_summary_section(summary, today) ==
    <<Line("\n## Weekly Summary\n\n", <<>>),
      Line("*Week ending {today}*\n\n", <<today>>),
      Line("---\n\n", <<>>),
      Line("{summary}", <<summary>>),
      Line("\n\n---\n\n", <<>>)>>

\* the header and the footer of generate_readme
readme_header(last_updated) ==
    <<Line("# PaperPostman\n", <<>>),
      Line("> Automatically curated research papers from arXiv and papers.cool\n", <<>>),
      Line("\n**Last Updated:** {last_updated}\n", <<last_updated>>),
      Line("---\n", <<>>)>>
readme_footer ==
    <<Line("\n---\n", <<>>),
      Line("\n*This repository is automatically maintained by PaperPostman.*\n", <<>>),
      Line("*Archived READMEs can be found in the [archive/](archive/) directory.*\n", <<>>)>>

\* a faulty variant of has_summary: the text is not stripped
has_summary_unstripped(weekly_summary) == weekly_summary # <<>>

\* generate_readme: "if weekly_summary and weekly_summary.strip()"
has_summary(weekly_summary) == weekly_summary # <<>> /\ strip(weekly_summary) # <<>>

\* generate_readme(latest_papers, daily_recommendations, weekly_summary,
\* last_updated); today is what datetime.now() gives the weekly section
generate_readme(latest_papers, daily_recommendations, weekly_summary, last_updated, today) ==
    readme_header(last_updated)
    \o _generate_latest_news_section(latest_papers)
    \o _generate_daily_recommendation_section(daily_recommendations)
    \o (IF has_summary(weekly_summary)
        THEN _generate_weekly_summary_section(weekly_summary, today)
        ELSE <<>>)
    \o readme_footer

\* the injective sequences of length k over the indices 1..n
Injections(k, n) ==
    {f \in [1..k -> 1..n] : \A i, j \in 1..k : i # j => f[i] # f[j]}

\* a faulty variant of random_sample: the positions are drawn with replacement
random_choices(population, k) ==
    {[i \in 1..k |-> population[f[i]]] : f \in [1..k -> DOMAIN population]}

\* random.sample(population, k) for 0 <= k <= len(population): every list of
\* the elements at k different positions, in any order
random_sample(population, k) ==
    {[i \in 1..k |-> population[f[i]]] : f \in Injections(k, Len(population))}

\* select_random_recommendations: the papers of the source
has_conference(p) == Truthy(p.conference)
has_no_conference(p) == ~ Truthy(p.conference)
source_filter(ps, source) ==
    CASE source = "conferences" -> SelectSeq(ps, has_conference)
      [] source = "arxiv" -> SelectSeq(ps, has_no_conference)
      [] OTHER -> ps

\* select_random_recommendations(papers, count, source): every outcome the
\* random choice allows; random.sample raises ValueError for a negative count
select_random_recommendations(ps, count, source) ==
    LET filtered == source_filter(ps, source)
        k == IF count < Len(filtered) THEN count ELSE Len(filtered)
    IN  IF filtered = <<>> THEN {[exc |-> "none", val |-> <<>>]}
        ELSE IF k < 0 THEN {[exc |-> "ValueError", val |-> <<>>]}
        ELSE {[exc |-> "none", val |-> s] : s \in random_sample(filtered, k)}

(***************************************************************************)
(* paper_filter.py: limit_papers, filter_by_date                           *)
(***************************************************************************)
\* limit_papers: papers[:limit]; a negative limit leaves out the last -limit
limit_papers(ps, limit) ==
    IF limit >= 0 THEN Take(ps, limit)
    ELSE SubSeq(ps, 1, IF Len(ps) + limit > 0 THEN Len(ps) + limit ELSE 0)

\* a faulty variant of date_included: the bounds are exclusive
date_included_exclusive(paper, min_date, max_date) ==
    /\ Truthy(paper.published_date)
    /\ ~ (Truthy(min_date) /\ paper.published_date.val[1] <= min_date.val[1])
    /\ ~ (Truthy(max_date) /\ paper.published_date.val[1] >= max_date.val[1])

\* filter_by_date: whether the loop appends the paper (a paper without a
\* published_date is skipped; published_date and the bounds are datetimes)
date_included(paper, min_date, max_date) ==
    /\ Truthy(paper.published_date)
    /\ ~ (Truthy(min_date) /\ paper.published_date.val[1] < min_date.val[1])
    /\ ~ (Truthy(max_date) /\ paper.published_date.val[1] > max_date.val[1])

\* filter_by_date: the loop over the papers, from index i on
RECURSIVE filter_by_date_loop(_, _, _, _, _)
filter_by_date_loop(ps, i, min_date, max_date, filtered) ==
    IF i > Len(ps) THEN filtered
    ELSE filter_by_date_loop(ps, i + 1, min_date, max_date,
                             IF date_included(ps[i], min_date, max_date)
                             THEN Append(filtered, ps[i]) ELSE filtered)

\* filter_by_date(papers, min_date, max_date)
filter_by_date(ps, min_date, max_date) ==
    IF min_date = None /\ max_date = None THEN ps
    ELSE filter_by_date_loop(ps, 1, min_date, max_date, <<>>)

(***************************************************************************)
(* storage.py: clear_old_weekly_data                                       *)
(***************************************************************************)
\* a faulty variant of weeks_ago: a year counts as 53 weeks
weeks_ago_53(path, current_week, current_year) ==
    IF path.year = current_year THEN current_week - path.week
    ELSE IF path.year < current_year
         THEN (current_year - path.year) * 53 + current_week - path.week
         ELSE 0

\* clear_old_weekly_data: the age in weeks it gives the file week_<week>.json
\* of the directory <year>
weeks_ago(path, current_week, current_year) ==
    IF path.year = current_year THEN current_week - path.week
    ELSE IF path.year < current_year
         THEN (current_year - path.year) * 52 + current_week - path.week
         ELSE 0

\* the files Path(weekly_dir).iterdir() / glob("week_*.json") finds
bucket_files(fs) == {p \in DOMAIN fs : fs[p].kind # "missing"}

\* the files clear_old_weekly_data unlinks when nothing raises
old_bucket_files(fs, now, max_weeks_to_keep) ==
    {p \in bucket_files(fs) :
        weeks_ago(p, isocalendar(now).week, now.year) > max_weeks_to_keep}

\* clear_old_weekly_data(weekly_dir, max_weeks_to_keep) at the time now.
\* raised: an exception (of iterdir or unlink) ended the loop, after the files
\* of visited had been looked at; it is caught and reported as False
clear_old_weekly_data(fs, now, max_weeks_to_keep, raised, visited) ==
    LET old == old_bucket_files(fs, now, max_weeks_to_keep)
        unlinked == IF raised THEN old \cap visited ELSE old
    IN  [exc |-> "none", val |-> ~ raised,
         files |-> [p \in DOMAIN fs |-> IF p \in unlinked THEN NoFile ELSE fs[p]]]

(***************************************************************************)
(* main.py: a full run, step by step                                       *)
(***************************************************************************)
\* the most arXiv categories / conferences a configuration names
MaxCategories == 1
MaxConferences == 1

\* config.get('papers_per_day', 20), config.get('daily_recommendation_count', 1)
papers_per_day == 20
daily_recommendation_count == 1

\* what load_config_file finds: no file, a file that open() or yaml cannot
\* read, a file that holds no setting, a configuration
ConfigKinds == {"missing", "unreadable", "empty", "loaded"}

\* the keywords of the configuration
ConfigKeywords == <<(<<"t">>)>>

\* the papers the sources hold: two of arXiv, two of papers.cool
PaperA == ConferencePaper(IdX, TitleT, <<>>, <<>>, Datetime(1), None)
PaperB == ConferencePaper(IdY, TitleU, <<"t">>, <<>>, Datetime(-1), None)
PaperC == ConferencePaper(Str(<<"c">>), TitleT, <<>>, <<>>, None, Str(<<"c">>))
PaperD == ConferencePaper(None, TitleU, <<"t">>, <<>>, None, Str(<<"c">>))

\* feed.entries of a category, parsed: the first category lists two papers,
\* the others list the first of them again (a cross-listed paper)
ArxivFeed(category) == IF category = 1 THEN <<PaperA, PaperB>> ELSE <<PaperA>>
\* the papers of a venue page
VenuePage(conference) == IF conference = 1 THEN <<PaperC>> ELSE <<PaperD>>

\* how the request of one category can end: a feed; a feed feedparser flags
\* as malformed (bozo), of which it returns the entries it could read; an
\* exception of feedparser.parse
FeedOutcomes == {"ok", "bozo", "raise"}
\* how the request of one venue can end: a page; an exception of requests;
\* an exception of BeautifulSoup or of the extraction
VenueOutcomes == {"ok", "RequestException", "ParserRejectedMarkup"}

\* fetch_papers, one pass of its loop: what the category adds to papers
\* (entries: what feedparser returned)
fetch_category(outcome, entries) ==
    CASE outcome = "raise" -> [exc |-> "none", val |-> <<>>]
      [] OTHER -> [exc |-> "none", val |-> entries]

\* a faulty variant of fetch_venue_papers: every exception is caught
fetch_venue_papers_catch_all(conference, outcome) ==
    CASE outcome = "ok" -> [exc |-> "none", val |-> VenuePage(conference)]
      [] OTHER -> [exc |-> "none", val |-> <<>>]

\* fetch_venue_papers(conference): except requests.RequestException only
fetch_venue_papers(conference, outcome) ==
    CASE outcome = "ok" -> [exc |-> "none", val |-> VenuePage(conference)]
      [] outcome = "RequestException" -> [exc |-> "none", val |-> <<>>]
      [] OTHER -> [exc |-> outcome, val |-> <<>>]

\* a faulty variant of proceeds_after_write: a failed write ends the run
proceeds_after_write_checked(ok) == ok

\* main, steps 5 and 8: the value save_papers / save_weekly_papers returns is
\* not looked at
proceeds_after_write(ok) == TRUE

\* datetime.now().strftime(...) on the run date, in one piece
strftime_now(dt) ==
    CASE dt = Ymd(2024, 1, 2) -> <<"2024-01-02">>
      [] dt = Ymd(2024, 12, 30) -> <<"2024-12-30">>
      [] dt = Ymd(2025, 1, 2) -> <<"2025-01-02">>
      [] OTHER -> <<"2025-01-06">>

\* the texts main and summarize_weekly_papers put in place of a summary, and
\* the text of the LLM, each in one piece
NoPapersText == <<"*No papers to summarize this week.*">>
SkippedText == <<"*Summary generation skipped - LLM API not configured.*">>
ErrorText == <<"Error generating summary: {str(e)}">>
LlmText == <<"{response.choices[0].message.content}">>

\* how step 7 can go: the LLM is not configured, answers, or fails
LlmOutcomes == {"unconfigured", "ok", "raise"}

\* main, step 7: the weekly summary
weekly_summary_of(summary_day, weekly_papers, llm) ==
    IF ~ summary_day THEN <<>>
    ELSE IF weekly_papers = <<>> THEN NoPapersText
    ELSE IF llm = "unconfigured" THEN SkippedText
    ELSE IF llm = "ok" THEN LlmText
    ELSE ErrorText

\* a text file (README.md and its archive copy)
TextFile(content) == [kind |-> "text", data |-> content]

\* the step after the configuration is loaded, after the categories, after
\* the venues
first_fetch(categories, conferences) ==
    IF categories > 0 THEN "fetch_papers"
    ELSE IF conferences > 0 THEN "fetch_venue_papers" ELSE "filter_by_keywords"

\* main before a run: README.md, archive and data/papers.json as they are
NewRun(papers_json, readme, archive) ==
    [pc |-> "load_config_file", exit |-> "running", config |-> "loaded",
     categories |-> 0, conferences |-> 0, category |-> 1, conference |-> 1,
     arxiv_papers |-> <<>>, conference_papers |-> <<>>, arxiv_filtered |-> <<>>,
     latest_papers |-> <<>>, conference_filtered |-> <<>>,
     daily_recommendations |-> <<>>, weekly_summary |-> <<>>,
     weekly_papers |-> <<>>,
     papers_json |-> papers_json, readme |-> readme, archive |-> archive,
     outcome |-> "none", fetches |-> 0, written |-> {}, failed_writes |-> {}]

\* what a run can find: no README.md or the document of the run before; no
\* bucket, a bucket an earlier run of the week wrote, a damaged bucket
OldReadme == generate_readme(<<>>, <<>>, <<>>, <<"2025-01-01">>, <<"2025-01-01">>)
InitialReadmes == {NoFile, TextFile(OldReadme)}
InitialBuckets ==
    {NoFile, ArrayFile(json_dump(<<PaperB>>)), [kind |-> "invalid_json", data |-> <<>>]}

InitMain ==
    /\ op = "start"
    /\ papers = <<>>
    /\ \E bucket \in InitialBuckets :
        files = [p \in Paths |-> IF p = BucketOf[Ymd(2025, 1, 2)] THEN bucket ELSE NoFile]
    /\ date = Ymd(2025, 1, 2)
    /\ filepath = BucketOf[date]
    /\ keywords = ConfigKeywords
    /\ match_type = "any"
    /\ sort_by = "date"
    /\ reverse = TRUE
    /\ prior = NoFile
    /\ ret = <<>>
    /\ exc = "none"
    /\ args = <<>>
    /\ \E readme \in InitialReadmes : run = NewRun(NoFile, readme, NoFile)

\* what every step of main leaves alone
MainFrame == UNCHANGED <<filepath, date, keywords, match_type, sort_by, reverse, args>>

\* main ends the run: by returning, by sys.exit(1) or by an exception
EndRun(r, how) == [r EXCEPT !.pc = "end", !.exit = how]

\* load_config_file and "if not config: sys.exit(1)"
LoadConfigFile ==
    \E kind \in ConfigKinds, categories \in 0..MaxCategories,
       conferences \in 0..MaxConferences :
        LET r == [NewRun(run.papers_json, run.readme, run.archive)
                    EXCEPT !.config = kind, !.categories = categories,
                           !.conferences = conferences]
        IN  /\ run.pc = "load_config_file"
            /\ kind # "loaded" => categories = 0 /\ conferences = 0
            /\ op' = "load_config_file"
            /\ papers' = <<>>
            /\ ret' = <<>>
            /\ exc' = CASE kind = "unreadable" -> "OSError"
                        [] kind \in {"missing", "empty"} -> "SystemExit"
                        [] OTHER -> "none"
            /\ run' = CASE kind = "unreadable" -> EndRun(r, "raised")
                        [] kind \in {"missing", "empty"} -> EndRun(r, "SystemExit")
                        [] OTHER -> [r EXCEPT !.pc = first_fetch(categories, conferences)]
            /\ prior' = NoFile
            /\ UNCHANGED files
            /\ MainFrame

\* step 1, fetch_papers: one pass of the loop over the categories
FetchPapers ==
    \E outcome \in FeedOutcomes, n \in 0..Len(ArxivFeed(run.category)) :
        LET feed == ArxivFeed(run.category)
            entries == IF outcome = "bozo" THEN Take(feed, n) ELSE feed
            r == fetch_category(outcome, entries)
        IN  /\ run.pc = "fetch_papers"
            /\ outcome # "bozo" => n = 0
            /\ op' = "fetch_papers"
            /\ papers' = <<>>
            /\ ret' = r.val
            /\ exc' = r.exc
            /\ run' = [run EXCEPT
                        !.arxiv_papers = @ \o r.val,
                        !.category = @ + 1,
                        !.outcome = outcome,
                        !.fetches = @ + 1,
                        !.pc = IF run.category < run.categories THEN "fetch_papers"
                               ELSE first_fetch(0, run.conferences)]
            /\ prior' = NoFile
            /\ UNCHANGED files
            /\ MainFrame

\* step 2: one pass of the loop over the conferences, fetch_venue_papers
FetchVenuePapers ==
    \E outcome \in VenueOutcomes :
        LET r == fetch_venue_papers(run.conference, outcome)
            fetched == [run EXCEPT !.outcome = outcome, !.fetches = @ + 1]
        IN  /\ run.pc = "fetch_venue_papers"
            /\ op' = "fetch_venue_papers"
            /\ papers' = <<>>
            /\ ret' = r.val
            /\ exc' = r.exc
            /\ run' = IF r.exc # "none" THEN EndRun(fetched, "raised")
                      ELSE [fetched EXCEPT
                              !.conference_papers = @ \o r.val,
                              !.conference = @ + 1,
                              !.pc = IF run.conference < run.conferences
                                     THEN "fetch_venue_papers"
                                     ELSE "filter_by_keywords"]
            /\ prior' = NoFile
            /\ UNCHANGED files
            /\ MainFrame

\* a faulty variant of arxiv_filtered_of: the papers are sorted before they
\* are deduplicated
arxiv_filtered_sort_first(arxiv_papers, kws) ==
    deduplicate_papers(
        sort_papers(filter_by_keywords(arxiv_papers, kws, "any"), "date", TRUE))

\* step 3: what main assigns to arxiv_filtered: the arXiv papers filtered by
\* keyword, then deduplicated, then sorted by date, newest first
arxiv_filtered_of(arxiv_papers, kws) ==
    sort_papers(deduplicate_papers(
        filter_by_keywords(arxiv_papers, kws, "any")), "date", TRUE)

\* steps 3 and 4: filter, dedupe, sort and limit the arXiv papers; filter and
\* dedupe the conference papers
FilterPapers ==
    LET arxiv_filtered == arxiv_filtered_of(run.arxiv_papers, keywords)
        conference_filtered ==
            deduplicate_papers(filter_by_keywords(run.conference_papers, keywords, "any"))
    IN  /\ run.pc = "filter_by_keywords"
        /\ op' = "filter_by_keywords"
        /\ papers' = run.arxiv_papers
        /\ ret' = arxiv_filtered
        /\ exc' = "none"
        /\ run' = [run EXCEPT
                    !.arxiv_filtered = arxiv_filtered,
                    !.latest_papers = limit_papers(arxiv_filtered, papers_per_day),
                    !.conference_filtered = conference_filtered,
                    !.outcome = "none",
                    !.pc = "save_papers"]
        /\ prior' = NoFile
        /\ UNCHANGED files
        /\ MainFrame

\* step 5: save_papers(all_papers, data/papers.json)
SaveAllPapers ==
    \E fault \in Faults :
        LET all_papers == run.arxiv_papers \o run.conference_papers
            r == save_papers(all_papers, run.papers_json, fault)
            saved == [run EXCEPT
                        !.papers_json = r.file,
                        !.outcome = fault,
                        !.written = IF fault = "open" THEN @ ELSE @ \cup {"papers_json"},
                        !.failed_writes = IF r.val THEN @ ELSE @ \cup {"papers_json"}]
        IN  /\ run.pc = "save_papers"
            /\ op' = "save_papers"
            /\ papers' = all_papers
            /\ ret' = r.val
            /\ exc' = r.exc
            /\ run' = IF proceeds_after_write(r.val)
                      THEN [saved EXCEPT !.pc = "select_random_recommendations"]
                      ELSE EndRun(saved, "SystemExit")
            /\ prior' = NoFile
            /\ UNCHANGED files
            /\ MainFrame

\* step 6: select_random_recommendations(conference_filtered, count,
\* "conferences")
SelectRecommendations ==
    \E r \in select_random_recommendations(run.conference_filtered,
                                           daily_recommendation_count, "conferences") :
        /\ run.pc = "select_random_recommendations"
        /\ op' = "select_random_recommendations"
        /\ papers' = run.conference_filtered
        /\ ret' = r.val
        /\ exc' = r.exc
        /\ run' = IF r.exc # "none" THEN EndRun(run, "raised")
                  ELSE [run EXCEPT !.daily_recommendations = r.val,
                                   !.outcome = "none",
                                   !.pc = "load_weekly_papers"]
        /\ prior' = NoFile
        /\ UNCHANGED files
        /\ MainFrame

\* a faulty variant of weekly_papers_of: the bucket is read after the papers
\* of this run were appended to it
weekly_papers_after_save(fs, dt, arxiv_filtered) ==
    load_papers(save_weekly_papers(arxiv_filtered, fs, dt, "none").file).val

\* step 7: what main assigns to weekly_papers on the summary day: the bucket
\* of the run date as it is on disk; arxiv_filtered is not looked at
weekly_papers_of(fs, dt, arxiv_filtered) == load_weekly_papers(fs, dt).val

\* step 7: on the summary day load_weekly_papers and summarize_weekly_papers
WeeklySummary ==
    \E summary_day \in BOOLEAN, llm \in LlmOutcomes :
        LET weekly_papers == IF summary_day
                             THEN weekly_papers_of(files, date, run.arxiv_filtered)
                             ELSE <<>>
        IN  /\ run.pc = "load_weekly_papers"
            /\ ~ summary_day => llm = "unconfigured"
            /\ op' = "load_weekly_papers"
            /\ papers' = <<>>
            /\ ret' = weekly_papers
            /\ exc' = "none"
            /\ run' = [run EXCEPT
                        !.weekly_papers = weekly_papers,
                        !.weekly_summary = weekly_summary_of(summary_day, weekly_papers, llm),
                        !.outcome = llm,
                        !.pc = "save_weekly_papers"]
            /\ prior' = NoFile
            /\ UNCHANGED files
            /\ MainFrame

\* step 8: save_weekly_papers(arxiv_filtered, data/weekly)
SaveWeekly ==
    \E fault \in Faults :
        LET r == save_weekly_papers(run.arxiv_filtered, files, date, fault)
            saved == [run EXCEPT
                        !.outcome = fault,
                        !.written = IF fault = "open" THEN @ ELSE @ \cup {"bucket"},
                        !.failed_writes = IF r.val THEN @ ELSE @ \cup {"bucket"}]
        IN  /\ run.pc = "save_weekly_papers"
            /\ op' = "save_weekly_papers"
            /\ papers' = run.arxiv_filtered
            /\ ret' = r.val
            /\ exc' = r.exc
            /\ files' = [files EXCEPT ![BucketOf[date]] = r.file]
            /\ prior' = files[BucketOf[date]]
            /\ run' = IF proceeds_after_write(r.val)
                      THEN [saved EXCEPT !.pc = "archive_readme"]
                      ELSE EndRun(saved, "SystemExit")
            /\ MainFrame

\* archive_readme(readme_path, archive_dir): a copy of README.md; an exception
\* is caught and reported as False
archive_readme(readme, archive, fault) ==
    CASE readme.kind = "missing" -> [exc |-> "none", val |-> TRUE, file |-> archive]
      [] fault = "open" -> [exc |-> "none", val |-> FALSE, file |-> archive]
      [] fault = "dump" -> [exc |-> "none", val |-> FALSE, file |-> TextFile(<<>>)]
      [] OTHER -> [exc |-> "none", val |-> TRUE, file |-> readme]

\* step 9: archive the README.md of the run before
ArchiveReadme ==
    \E fault \in Faults :
        LET r == archive_readme(run.readme, run.archive, fault)
        IN  /\ run.pc = "archive_readme"
            /\ run.readme.kind = "missing" => fault = "none"
            /\ op' = "archive_readme"
            /\ papers' = <<>>
            /\ ret' = r.val
            /\ exc' = r.exc
            /\ run' = [run EXCEPT
                        !.archive = r.file,
                        !.outcome = fault,
                        !.written = IF run.readme.kind = "missing" \/ fault = "open"
                                    THEN @ ELSE @ \cup {"archive"},
                        !.pc = "generate_readme"]
            /\ prior' = NoFile
            /\ UNCHANGED files
            /\ MainFrame

\* step 10: generate_readme and the write of README.md, whose exceptions
\* nothing catches
WriteReadme ==
    \E fault \in Faults :
        LET content == generate_readme(run.latest_papers, run.daily_recommendations,
                                       run.weekly_summary, strftime_now(date),
                                       strftime_now(date))
        IN  /\ run.pc = "generate_readme"
            /\ op' = "generate_readme"
            /\ papers' = run.latest_papers
            /\ ret' = content
            /\ exc' = IF fault = "none" THEN "none" ELSE "OSError"
            /\ run' = CASE fault = "none" ->
                            EndRun([run EXCEPT !.readme = TextFile(content),
                                               !.outcome = fault,
                                               !.written = @ \cup {"readme"}],
                                   "complete")
                        [] fault = "open" ->
                            EndRun([run EXCEPT !.outcome = fault], "raised")
                        [] OTHER ->
                            EndRun([run EXCEPT !.readme = TextFile(<<>>),
                                               !.outcome = fault,
                                               !.written = @ \cup {"readme"}],
                                   "raised")
            /\ prior' = run.readme
            /\ UNCHANGED files
            /\ MainFrame

NextMain ==
    \/ LoadConfigFile
    \/ FetchPapers
    \/ FetchVenuePapers
    \/ FilterPapers
    \/ SaveAllPapers
    \/ SelectRecommendations
    \/ WeeklySummary
    \/ SaveWeekly
    \/ ArchiveReadme
    \/ WriteReadme

SpecMain == InitMain /\ [][NextMain]_vars

(***************************************************************************)
(* Claims on a full run                                                    *)
(***************************************************************************)
\* a storage write of main has just returned
StorageWriteDone == op \in {"save_papers", "save_weekly_papers"}

\* C11: a failed storage write (save_papers, append_papers under
\* save_weekly_papers) is reported as False and never raised, and main does
\* not look at the value: after step 5 and after step 8 the run goes on to
\* the next step whatever was returned, no run ends at a storage write, and a
\* run that is complete has written README.md whichever writes failed.
C11_WriteFailureIsSilent ==
    /\ StorageWriteDone =>
        /\ exc = "none"
        /\ ret \in BOOLEAN
        /\ run.outcome # "none" => ret = FALSE
        /\ run.exit = "running"
        /\ run.pc = IF op = "save_papers" THEN "select_random_recommendations"
                    ELSE "archive_readme"
    /\ run.exit = "complete" =>
        /\ "readme" \in run.written
        /\ run.readme.kind = "text"
        /\ run.readme.data = ret

\* C11 witness: a run in which both the papers.json write and the bucket
\* write failed is complete and has written README.md
C11_Witness ==
    /\ run.exit = "complete"
    /\ run.failed_writes = {"papers_json", "bucket"}
    /\ op = "generate_readme"
    /\ run.readme = TextFile(ret)

\* a source request that ended in an exception
SourceFailed ==
    \/ op = "fetch_papers" /\ run.outcome = "raise"
    \/ op = "fetch_venue_papers" /\ run.outcome \in {"RequestException", "ParserRejectedMarkup"}

\* C12 (as claimed): a fetch or parse failure of one arXiv category or of one
\* venue adds no paper and does not end the run: the run goes on with the
\* next source or the next step.
C12_SourceFailureNeverAborts ==
    SourceFailed =>
        /\ ret = <<>>
        /\ exc = "none"
        /\ run.exit = "running"
        /\ run.pc # "end"

\* a run has ended
RunEnded == op # "start" /\ run.pc = "end"

\* C13 (as claimed): a run ends without completing only when the top-level
\* configuration is missing or unreadable (here: also when it holds no
\* setting), and then before any fetch and before any file is written; every
\* other run is complete and has written README.md.  Stated for runs whose
\* README.md write meets no I/O error, the weakest reading of the claim.
C13_OnlyConfigIsFatal ==
    (RunEnded /\ ~ (op = "generate_readme" /\ run.outcome # "none")) =>
        /\ run.config # "loaded" =>
            /\ run.exit \in {"SystemExit", "raised"}
            /\ run.fetches = 0
            /\ run.written = {}
        /\ run.config = "loaded" =>
            /\ run.exit = "complete"
            /\ "readme" \in run.written

(***************************************************************************)
(* generate_readme: the inputs are drawn, the document is generated        *)
(***************************************************************************)
\* the papers a document shows: of arXiv with a date, of a conference, with
\* authors and an abstract
ReadmePapers ==
    {PaperA, PaperC,
     ConferencePaper(None, TitleU, <<"t">>, <<(<<"a">>), (<<"b">>)>>, None, None)}
\* the summary texts: empty, blank, a text, a text behind a blank
Summaries == {<<>>, <<" ">>, <<"a">>, <<" ", "a">>}

InitReadme ==
    /\ op = "start"
    /\ papers \in SeqsUpTo(ReadmePapers, MaxPapers)
    /\ \E daily_recommendations \in SeqsUpTo(ReadmePapers, MaxPapers),
          weekly_summary \in Summaries :
        args = [daily_recommendations |-> daily_recommendations,
                weekly_summary |-> weekly_summary]
    /\ files = [p \in Paths |-> NoFile]
    /\ filepath \in StoragePaths
    /\ date = Ymd(2025, 1, 2)
    /\ keywords = <<>>
    /\ match_type = "any"
    /\ sort_by = "date"
    /\ reverse = TRUE
    /\ prior = NoFile
    /\ ret = <<>>
    /\ exc = "none"
    /\ run = <<>>

\* generate_readme(papers, daily_recommendations, weekly_summary, last_updated)
GenerateReadme ==
    /\ op = "start"
    /\ op' = "generate_readme"
    /\ ret' = generate_readme(papers, args.daily_recommendations, args.weekly_summary,
                              strftime_now(date), strftime_now(date))
    /\ UNCHANGED <<files, papers, filepath, date, keywords, match_type, sort_by,
                   reverse, prior, exc, args, run>>

SpecReadme == InitReadme /\ [][GenerateReadme]_vars

(***************************************************************************)
(* Claims on the document                                                  *)
(***************************************************************************)
ReadmeDone == op = "generate_readme"

\* the positions of the document at which a piece with this text stands
PositionsOf(text) == {i \in DOMAIN ret : ret[i].text = text}

LatestHeading == PositionsOf("\n## Latest News\n\n")
DailyHeading == PositionsOf("\n## Daily Recommendation\n\n")
WeeklyHeading == PositionsOf("\n## Weekly Summary\n\n")
FooterLine ==
    PositionsOf("\n*This repository is automatically maintained by PaperPostman.*\n")
LatestPlaceholder ==
    PositionsOf("*No new papers matching your keywords found today.*\n\n")
DailyPlaceholder == PositionsOf("*No daily recommendation available.*\n\n")
LatestEntries == PositionsOf("### {i}. {paper['title']}\n\n")
DailyEntries == PositionsOf("### * {paper['title']}\n\n")

\* every position of S is before every position of T
Before(S, T) == \A i \in S, j \in T : i < j

\* a text with a character that is not a blank
NonBlank(text) == \E i \in DOMAIN text : text[i] # " "

\* C14: the document is the header, the Latest News section, the Daily
\* Recommendation section, the Weekly Summary section and the footer in this
\* order, each heading once; the entries of the latest papers stand in the
\* Latest News section and those of the recommendations in the Daily
\* Recommendation section; the Weekly Summary heading is there exactly when
\* the summary text is not empty after trimming; with no latest paper, no
\* recommendation and an empty summary the document has both placeholder
\* sentences and no Weekly Summary heading.
C14_SectionsInFixedOrder ==
    ReadmeDone =>
        /\ ret[1].text = "# PaperPostman\n"
        /\ Cardinality(LatestHeading) = 1
        /\ Cardinality(DailyHeading) = 1
        /\ Cardinality(FooterLine) = 1
        /\ Cardinality(WeeklyHeading) = IF NonBlank(args.weekly_summary) THEN 1 ELSE 0
        /\ Before({1}, LatestHeading)
        /\ Before(LatestHeading, DailyHeading)
        /\ Before(DailyHeading, WeeklyHeading)
        /\ Before(WeeklyHeading, FooterLine)
        /\ Before(DailyHeading, FooterLine)
        /\ FooterLine = {Len(ret) - 1}
        /\ Cardinality(LatestEntries) = Len(papers)
        /\ Cardinality(DailyEntries) = Len(args.daily_recommendations)
        /\ Before(LatestHeading, LatestEntries \cup LatestPlaceholder)
        /\ Before(LatestEntries \cup LatestPlaceholder, DailyHeading)
        /\ Before(DailyHeading, DailyEntries \cup DailyPlaceholder)
        /\ Before(DailyEntries \cup DailyPlaceholder, WeeklyHeading \cup FooterLine)
        /\ Cardinality(LatestPlaceholder) = IF papers = <<>> THEN 1 ELSE 0
        /\ Cardinality(DailyPlaceholder) = IF args.daily_recommendations = <<>> THEN 1 ELSE 0
        /\ \A i \in WeeklyHeading : ret[i + 3].data = <<args.weekly_summary>>

\* C14 witness: no latest paper, no recommendation and a blank summary that is
\* not empty: both placeholder sentences, no Weekly Summary heading
C14_Witness ==
    /\ ReadmeDone
    /\ papers = <<>>
    /\ args.daily_recommendations = <<>>
    /\ args.weekly_summary = <<" ">>
    /\ LatestPlaceholder # {}
    /\ DailyPlaceholder # {}
    /\ WeeklyHeading = {}

(***************************************************************************)
(* select_random_recommendations: the inputs are drawn, a sample is taken  *)
(***************************************************************************)
\* the largest count asked for
MaxCount == 3

\* the pool: a paper of arXiv, two of a conference, one whose conference is ''
RecommendPapers ==
    {PaperA, PaperC, PaperD,
     ConferencePaper(IdY, TitleU, <<>>, <<>>, None, Str(<<>>))}
Sources == {"conferences", "arxiv", "both"}

InitRecommend ==
    /\ op = "start"
    /\ papers \in SeqsUpTo(RecommendPapers, MaxPapers)
    /\ \E count \in (-1)..MaxCount, source \in Sources :
        args = [count |-> count, source |-> source]
    /\ files = [p \in Paths |-> NoFile]
    /\ filepath \in StoragePaths
    /\ date = Ymd(2025, 1, 2)
    /\ keywords = <<>>
    /\ match_type = "any"
    /\ sort_by = "date"
    /\ reverse = TRUE
    /\ prior = NoFile
    /\ ret = <<>>
    /\ exc = "none"
    /\ run = <<>>

\* select_random_recommendations(papers, count, source)
SelectRandomRecommendations ==
    \E r \in select_random_recommendations(papers, args.count, args.source) :
        /\ op = "start"
        /\ op' = "select_random_recommendations"
        /\ ret' = r.val
        /\ exc' = r.exc
        /\ UNCHANGED <<files, papers, filepath, date, keywords, match_type, sort_by,
                       reverse, prior, args, run>>

SpecRecommend == InitRecommend /\ [][SelectRandomRecommendations]_vars

(***************************************************************************)
(* Claims on the recommendation                                            *)
(***************************************************************************)
RecommendDone == op = "select_random_recommendations"

\* the pool the claim names for the source: the papers with a truthy
\* conference, the papers without one, or all of them
SourcePool ==
    SubAt(papers,
          {i \in DOMAIN papers :
              CASE args.source = "conferences" -> Truthy(papers[i].conference)
                [] args.source = "arxiv" -> ~ Truthy(papers[i].conference)
                [] OTHER -> TRUE},
          1)

\* C15: for a count >= 0 select_random_recommendations returns, without
\* raising, min(count, size of the source pool) papers that stand at pairwise
\* different positions of the source pool, and [] for an empty pool.
C15_SampleWithoutReplacement ==
    (RecommendDone /\ args.count >= 0) =>
        /\ exc = "none"
        /\ Len(ret) = IF args.count < Len(SourcePool) THEN args.count ELSE Len(SourcePool)
        /\ \E f \in [DOMAIN ret -> DOMAIN SourcePool] :
            /\ \A k \in DOMAIN ret : ret[k] = SourcePool[f[k]]
            /\ \A k, l \in DOMAIN ret : k # l => f[k] # f[l]
        /\ SourcePool = <<>> => ret = <<>>

\* C15 witness: two papers are asked for out of a pool of two papers of a
\* conference: both come back, the later one first
C15_Witness ==
    /\ RecommendDone
    /\ args.source = "conferences"
    /\ args.count = 2
    /\ Len(papers) = 2
    /\ Len(SourcePool) = 2
    /\ papers[1] # papers[2]
    /\ ret = <<papers[2], papers[1]>>


(***************************************************************************)
(* The bucket over a sequence of append_papers calls                       *)
(***************************************************************************)
\* s is a prefix of t
IsPrefix(s, t) == Len(s) <= Len(t) /\ SubSeq(t, 1, Len(s)) = s

\* C16 (as claimed): the bucket is append-only: whenever append_papers is
\* called on a readable bucket file, the papers the file held before the call
\* are a prefix of the papers it holds after it, whatever the call returns.
\* A call whose write raises after open(filepath, 'w') leaves a cut file that
\* reads back as no papers, so the papers stored before it are gone.
C16_AppendOnly ==
    (op = "append_papers" /\ prior.kind = "array") =>
        IsPrefix(prior.data, StoredNow)


(***************************************************************************)
(* filter_by_date as a state machine                                       *)
(***************************************************************************)
\* the papers filter_by_date is given: no date, and dates before, at and
\* after the instant 0, under two ids
DatePapers ==
    {Paper(id, TitleT, <<>>, <<>>, published_date) :
        id \in {IdX, IdY},
        published_date \in {None, Datetime(-1), Datetime(0), Datetime(1)}}
\* the bounds it is given: none, or an instant (a later min_date than
\* max_date included)
DateBounds == {None, Datetime(-1), Datetime(0), Datetime(1)}

InitDate ==
    /\ op = "start"
    /\ papers \in SeqsUpTo(DatePapers, MaxPapers)
    /\ \E min_date \in DateBounds, max_date \in DateBounds :
        args = [min_date |-> min_date, max_date |-> max_date]
    /\ files = [p \in Paths |-> NoFile]
    /\ filepath \in StoragePaths
    /\ date = Ymd(2025, 1, 2)
    /\ keywords = <<>>
    /\ match_type = "any"
    /\ sort_by = "date"
    /\ reverse = TRUE
    /\ prior = NoFile
    /\ ret = <<>>
    /\ exc = "none"
    /\ run = <<>>

\* filter_by_date(papers, min_date, max_date)
FilterByDate ==
    /\ op = "start"
    /\ op' = "filter_by_date"
    /\ ret' = filter_by_date(papers, args.min_date, args.max_date)
    /\ UNCHANGED <<files, papers, filepath, date, keywords, match_type, sort_by,
                   reverse, prior, exc, args, run>>

SpecDate == InitDate /\ [][FilterByDate]_vars

(***************************************************************************)
(* Claims on the date filter                                               *)
(***************************************************************************)
FilterByDateDone == op = "filter_by_date"

\* the paper has a published_date and it lies in [min_date, max_date], a
\* missing bound being unbounded
InDateRange(paper) ==
    /\ paper.published_date # None
    /\ args.min_date # None =>
        args.min_date.val[1] <= paper.published_date.val[1]
    /\ args.max_date # None =>
        paper.published_date.val[1] <= args.max_date.val[1]

\* C17: filter_by_date keeps exactly the papers whose published_date lies in
\* the inclusive range [min_date, max_date] (a missing bound is unbounded), in
\* their input order, so it drops every paper with no published_date when a
\* bound is supplied; with neither bound it returns the input unchanged.
C17_FilterByDateInclusive ==
    FilterByDateDone =>
        IF args.min_date = None /\ args.max_date = None
        THEN ret = papers
        ELSE ret = SubAt(papers, {i \in DOMAIN papers : InDateRange(papers[i])}, 1)

\* C17 witness: with both bounds supplied, a paper dated exactly at a bound
\* is kept and a paper with no date is dropped
C17_Witness ==
    /\ FilterByDateDone
    /\ args.min_date # None /\ args.max_date # None
    /\ Len(papers) = 2 /\ Len(ret) = 1
    /\ \E i \in DOMAIN papers : papers[i].published_date = None
    /\ ret[1].published_date \in {args.min_date, args.max_date}


(***************************************************************************)
(* clear_old_weekly_data as a state machine                                *)
(***************************************************************************)
\* the largest max_weeks_to_keep the sweep is called with
MaxWeeksToKeep == 2

\* the bucket files weekly_dir can hold when the sweep runs: weeks of two
\* earlier years, of the years of the run dates and of a later year
SweepPaths ==
    {[year |-> 2023, week |-> 52], [year |-> 2024, week |-> 1],
     [year |-> 2024, week |-> 50], [year |-> 2024, week |-> 51],
     [year |-> 2024, week |-> 52], [year |-> 2025, week |-> 1],
     [year |-> 2025, week |-> 2], [year |-> 2026, week |-> 1]}

InitSweep ==
    /\ op = "start"
    /\ files \in [SweepPaths -> {NoFile, ArrayFile(<<>>)}]
    /\ date \in RunDates
    /\ \E max_weeks_to_keep \in 0..MaxWeeksToKeep :
        args = [max_weeks_to_keep |-> max_weeks_to_keep]
    /\ papers = <<>>
    /\ filepath \in StoragePaths
    /\ keywords = <<>>
    /\ match_type = "any"
    /\ sort_by = "date"
    /\ reverse = TRUE
    /\ prior = NoFile
    /\ ret = <<>>
    /\ exc = "none"
    /\ run = <<>>

\* clear_old_weekly_data(weekly_dir, max_weeks_to_keep) on the day date;
\* prior keeps the files it found
ClearOldWeeklyData ==
    \E raised \in BOOLEAN,
       visited \in SUBSET old_bucket_files(files, date, args.max_weeks_to_keep) :
        LET r == clear_old_weekly_data(files, date, args.max_weeks_to_keep,
                                       raised, visited)
        IN  /\ op = "start"
            /\ raised \/ visited = {}
            /\ op' = "clear_old_weekly_data"
            /\ files' = r.files
            /\ prior' = files
            /\ ret' = r.val
            /\ exc' = r.exc
            /\ UNCHANGED <<papers, filepath, date, keywords, match_type, sort_by,
                           reverse, args, run>>

SpecSweep == InitSweep /\ [][ClearOldWeeklyData]_vars

(***************************************************************************)
(* Claims on the retention sweep                                           *)
(***************************************************************************)
SweepDone == op = "clear_old_weekly_data"

\* the week number and the year the sweep reads from the clock
CurrentWeek == isocalendar(date).week
CurrentYear == date.year

\* the age in weeks the claim gives a bucket file of the current year or of
\* a prior year
AgeInWeeks(p) ==
    IF p.year = CurrentYear THEN CurrentWeek - p.week
    ELSE (CurrentYear - p.year) * 52 + CurrentWeek - p.week

\* the bucket files whose age exceeds max_weeks_to_keep
TooOld ==
    {p \in SweepPaths :
        /\ prior[p].kind # "missing"
        /\ p.year <= CurrentYear
        /\ AgeInWeeks(p) > args.max_weeks_to_keep}

\* the bucket files the sweep deleted
Deleted == {p \in SweepPaths : prior[p].kind # "missing" /\ files[p].kind = "missing"}

\* C18: a sweep that returns True has deleted exactly the bucket files whose
\* age in weeks exceeds max_weeks_to_keep, the age of a file of the current
\* year being current_week - file_week and of a prior year
\* (current_year - file_year) * 52 + current_week - file_week; a sweep that an
\* exception cut short has deleted only such files; every other file is as
\* it was.
C18_SweepDeletesByAge ==
    SweepDone =>
        /\ ret = TRUE => Deleted = TooOld
        /\ Deleted \subseteq TooOld
        /\ \A p \in SweepPaths \ Deleted : files[p] = prior[p]

\* C18 witness: a completed sweep found two files of a prior year, deleted
\* the one aged max_weeks_to_keep + 1 and kept the one aged max_weeks_to_keep,
\* and kept a file of the current year
C18_Witness ==
    /\ SweepDone /\ ret = TRUE
    /\ \E p \in Deleted, q \in SweepPaths \ Deleted, s \in SweepPaths \ Deleted :
        /\ p.year < CurrentYear /\ AgeInWeeks(p) = args.max_weeks_to_keep + 1
        /\ q.year < CurrentYear /\ AgeInWeeks(q) = args.max_weeks_to_keep
        /\ files[q].kind # "missing"
        /\ s.year = CurrentYear /\ files[s].kind # "missing"


(***************************************************************************)
(* Claims on the papers with an empty identity key                         *)
(***************************************************************************)
\* a paper with neither a truthy id nor a non-empty title
Keyless(p) == ~ Truthy(p.id) /\ p.title = <<>>

\* the papers of a list that are keyless / that are not, in the list's order
KeylessOf(xs) == SelectSeq(xs, Keyless)
KeyedOf(xs) == SelectSeq(xs, LAMBDA p : ~ Keyless(p))

SortDone == op = "sort_papers" /\ sort_by \in {"date", "title", "authors"}

\* the two papers have equal sort keys under sort_by
SameSortKey(p, q) == key_le(sort_by, p, q) /\ key_le(sort_by, q, p)

\* p may stand before q in the requested direction
InSortOrder(p, q) ==
    IF reverse THEN key_le(sort_by, q, p) ELSE key_le(sort_by, p, q)

\* the ways of arranging n positions
Arrangements(n) == {f \in [1..n -> 1..n] : \A i, j \in 1..n : f[i] = f[j] => i = j}

\* C20: for each of the keys date, title and authors and for both values of
\* reverse, the result of sort_papers is a permutation of the input ordered
\* by the key in the direction asked for, and two papers with equal sort keys
\* keep their relative input order.
C20_SortIsStable ==
    SortDone =>
        \E f \in Arrangements(Len(papers)) :
            /\ ret = [k \in 1..Len(papers) |-> papers[f[k]]]
            /\ \A k, l \in 1..Len(papers) :
                k < l =>
                    /\ InSortOrder(ret[k], ret[l])
                    /\ SameSortKey(ret[k], ret[l]) => f[k] < f[l]

\* C20 witness: with reverse set, two different papers of equal key come out
\* in their input order; the key is the title or the author list
C20_Witness ==
    /\ SortDone /\ reverse /\ sort_by # "date"
    /\ Len(papers) = 2
    /\ papers[1] # papers[2]
    /\ SameSortKey(papers[1], papers[2])
    /\ ret = papers


(***************************************************************************)
(* Claims on a sort key sort_papers does not know                          *)
(***************************************************************************)
SortByUnknownDone == op = "sort_papers" /\ sort_by \notin {"date", "title", "authors"}

\* C21: with a sort key other than date, title or authors, sort_papers
\* returns the papers in input order, unchanged, and does not raise, for
\* either value of reverse.
C21_UnknownKeyIsNoOp ==
    SortByUnknownDone => (ret = papers /\ exc = "none")

\* C21 witness: two papers that the keys date and title would put the other
\* way round (the first is older and its title sorts first, and reverse is
\* set) come back in input order
C21_Witness ==
    /\ SortByUnknownDone
    /\ reverse
    /\ Len(papers) = 2
    /\ \A sb \in {"date", "title"} :
        key_le(sb, papers[1], papers[2]) /\ ~ key_le(sb, papers[2], papers[1])
    /\ ret = papers


(***************************************************************************)
(* The author lists of a document                                          *)
(***************************************************************************)
\* the names of the authors, and the papers a document shows: with no
\* author and with three to six
AuthorNames == <<(<<"a">>), (<<"b">>), (<<"c">>), (<<"t">>), (<<"u">>), (<<"A">>)>>
AuthorPapers ==
    {ConferencePaper(None, TitleT, <<>>, Take(AuthorNames, n), None, None) :
        n \in {0, 3, 4, 5, 6}}

InitAuthors ==
    /\ op = "start"
    /\ papers \in SeqsUpTo(AuthorPapers, MaxPapers)
    /\ \E daily_recommendations \in SeqsUpTo(AuthorPapers, MaxPapers) :
        args = [daily_recommendations |-> daily_recommendations,
                weekly_summary |-> <<>>]
    /\ files = [p \in Paths |-> NoFile]
    /\ filepath \in StoragePaths
    /\ date = Ymd(2025, 1, 2)
    /\ keywords = <<>>
    /\ match_type = "any"
    /\ sort_by = "date"
    /\ reverse = TRUE
    /\ prior = NoFile
    /\ ret = <<>>
    /\ exc = "none"
    /\ run = <<>>

SpecAuthors == InitAuthors /\ [][GenerateReadme]_vars

\* the first n names joined by ', ', with ' et al.' behind them exactly when
\* there are more than n
FirstAuthors(authors, n) ==
    join(SubSeq(authors, 1, IF Len(authors) < n THEN Len(authors) ELSE n))
    \o (IF Len(authors) > n THEN <<" ", "e", "t", " ", "a", "l", ".">> ELSE <<>>)

\* for the papers of ps that have authors, in order, what FirstAuthors gives
RECURSIVE AuthorsOf(_, _)
AuthorsOf(ps, n) ==
    IF ps = <<>> THEN <<>>
    ELSE (IF Head(ps).authors # <<>> THEN <<FirstAuthors(Head(ps).authors, n)>> ELSE <<>>)
         \o AuthorsOf(Tail(ps), n)

\* what the Authors lines of the document show, from the top down
RECURSIVE AuthorsShownFrom(_)
AuthorsShownFrom(i) ==
    IF i > Len(ret) THEN <<>>
    ELSE (IF ret[i].text = "**Authors:** {author_list}\n\n"
          THEN <<ret[i].data[1]>> ELSE <<>>)
         \o AuthorsShownFrom(i + 1)

\* C22 (as claimed): every entry of the document, in the Latest News section
\* and in the Daily Recommendation section alike, shows the first 5 authors
\* at most and 'et al.' exactly when the paper has more than 5.
C22_FiveAuthorsEverywhere ==
    ReadmeDone =>
        AuthorsShownFrom(1) = AuthorsOf(papers, 5) \o AuthorsOf(args.daily_recommendations, 5)

\* C22 (amended): an entry of the Latest News section shows the first 5
\* authors at most and 'et al.' exactly when the paper has more than 5; an
\* entry of the Daily Recommendation section shows the first 3 authors at
\* most and 'et al.' exactly when the paper has more than 3.
C22_FiveAuthorsLatestThreeDaily ==
    ReadmeDone =>
        AuthorsShownFrom(1) = AuthorsOf(papers, 5) \o AuthorsOf(args.daily_recommendations, 3)

\* C22 witness: a document with a paper of six authors in the Latest News
\* and a paper of four or five authors in the Daily Recommendation
C22_Witness ==
    /\ ReadmeDone
    /\ \E i \in DOMAIN papers : Len(papers[i].authors) = 6
    /\ \E i \in DOMAIN args.daily_recommendations :
        Len(args.daily_recommendations[i].authors) \in {4, 5}
    /\ Len(AuthorsShownFrom(1)) >= 2


(***************************************************************************)
(* main.py: the stages that make the Latest News list, on any fetched list *)
(***************************************************************************)
\* the arXiv papers a run fetches: two with one id and different dates, one
\* that only its abstract makes match, one that does not match, one undated
PipelinePapers ==
    {Paper(IdX, TitleT, <<>>, <<>>, Datetime(1)),
     Paper(IdX, TitleT, <<>>, <<>>, Datetime(2)),
     Paper(IdY, TitleU, <<"t">>, <<>>, Datetime(-1)),
     Paper(IdY, TitleU, <<>>, <<>>, Datetime(2)),
     Paper(None, TitleT, <<>>, <<>>, None)}
\* config.get('papers_per_day', 20): a configured cap of one paper, or the
\* default
PapersPerDay == {1, papers_per_day}

InitPipeline ==
    /\ op = "start"
    /\ papers \in SeqsUpTo(PipelinePapers, MaxPapers)
    /\ keywords \in {<<>>, ConfigKeywords}
    /\ \E limit \in PapersPerDay : args = [papers_per_day |-> limit]
    /\ files = [p \in Paths |-> NoFile]
    /\ filepath \in StoragePaths
    /\ date = Ymd(2025, 1, 2)
    /\ match_type = "any"
    /\ sort_by = "date"
    /\ reverse = TRUE
    /\ prior = NoFile
    /\ ret = <<>>
    /\ exc = "none"
    /\ run = <<>>

\* step 3 of main on the fetched papers: ret is latest_papers
LatestNewsStages ==
    /\ op = "start"
    /\ op' = "limit_papers"
    /\ ret' = limit_papers(arxiv_filtered_of(papers, keywords), args.papers_per_day)
    /\ UNCHANGED <<files, papers, filepath, date, keywords, match_type, sort_by,
                   reverse, prior, exc, args, run>>

SpecPipeline == InitPipeline /\ [][LatestNewsStages]_vars

(***************************************************************************)
(* Claims on the order of the stages                                       *)
(***************************************************************************)
StagesDone == op = "limit_papers"

PassesFilter ==
    IF keywords = <<>> THEN DOMAIN papers
    ELSE MatchingPapers(TrimmedKeywords, "any")

\* of the papers that pass the filter, those with a non-empty identity key
\* that are the first fetched with their key
FirstFetchedOfKey ==
    {i \in PassesFilter :
        /\ IdentityKey(papers[i]) # <<>>
        /\ \A k \in PassesFilter :
            k < i => IdentityKey(papers[k]) # IdentityKey(papers[i])}

append_papers_save_new_only(ps, existing, file, fault) ==
    save_papers(append_loop(ps, 1, <<>>, {}, {}), file, fault)

\* append_papers from behind the load: the new papers are merged into the
\* list this run loaded and the whole list is written over the file
append_papers_save(ps, existing, file, fault) ==
    save_papers(append_loop(ps, 1, existing, seen_ids_of(existing),
                            seen_titles_of(existing)),
                file, fault)

\* the two runs, and the papers they append
Runs == {1, 2}
RacePapers ==
    {Paper(IdX, TitleT, <<>>, <<>>, None), Paper(IdY, TitleU, <<>>, <<>>, None)}
\* the bucket the runs find: absent, or holding a paper
RaceBuckets == {NoFile, ArrayFile(<<Paper(IdX, TitleT, <<>>, <<>>, None)>>)}

\* run.pc[r] is where run r stands in append_papers: before the load, between
\* the load and the save, behind the save; run.existing[r] is the list it
\* loaded, run.ok[r] what its call returned; run.overlapped tells whether a
\* run loaded while the other stood between its load and its save
InitRace ==
    /\ op = "start"
    /\ papers = <<>>
    /\ date = Ymd(2025, 1, 2)
    /\ keywords = <<>>
    /\ match_type = "any"
    /\ sort_by = "date"
    /\ reverse = TRUE
    /\ prior = NoFile
    /\ ret = <<>>
    /\ exc = "none"
    /\ filepath \in StoragePaths
    /\ \E bucket \in RaceBuckets :
        files = [p \in Paths |-> IF p = filepath THEN bucket ELSE NoFile]
    /\ \E b1 \in SeqsUpTo(RacePapers, MaxBatch), b2 \in SeqsUpTo(RacePapers, MaxBatch) :
        run = [pc |-> <<"start", "start">>,
               batch |-> <<b1, b2>>,
               existing |-> <<(<<>>), (<<>>)>>,
               ok |-> <<FALSE, FALSE>>,
               before |-> files[filepath],
               overlapped |-> FALSE]
    /\ args = <<>>

\* existing = load_papers(filepath), in run r
RaceLoad ==
    \E r \in Runs :
        LET loaded == load_papers(files[filepath])
        IN  /\ run.pc[r] = "start"
            /\ op' = "load_papers"
            /\ ret' = loaded.val
            /\ exc' = loaded.exc
            /\ run' = [run EXCEPT
                        !.pc[r] = "loaded",
                        !.existing[r] = loaded.val,
                        !.overlapped = @ \/ run.pc[3 - r] = "loaded"]
            /\ UNCHANGED <<files, papers, filepath, date, keywords, match_type,
                           sort_by, reverse, prior, args>>

\* the loop over the new papers and save_papers(existing, filepath), in run r
RaceSave ==
    \E r \in Runs, fault \in Faults :
        LET saved == append_papers_save(run.batch[r], run.existing[r],
                                        files[filepath], fault)
        IN  /\ run.pc[r] = "loaded"
            /\ op' = "save_papers"
            /\ files' = [files EXCEPT ![filepath] = saved.file]
            /\ papers' = run.batch[r]
            /\ prior' = files[filepath]
            /\ ret' = saved.val
            /\ exc' = saved.exc
            /\ run' = [run EXCEPT !.pc[r] = "done", !.ok[r] = saved.val]
            /\ UNCHANGED <<filepath, date, keywords, match_type, sort_by, reverse,
                           args>>

NextRace == RaceLoad \/ RaceSave

SpecRace == InitRace /\ [][NextRace]_vars

(***************************************************************************)
(* Claims on two runs on one bucket                                        *)
(***************************************************************************)
\* both runs are behind their save and both calls returned True
BothAppended == \A r \in Runs : run.pc[r] = "done" /\ run.ok[r]

\* the paper is in the file, or the file holds a paper it is a duplicate of
InFinalFile(p) ==
    \E q \in Range(StoredNow) : q = p \/ Matches(p, q)

\* the papers of the runs' batches that the final file lacks
LostPapers ==
    {p \in Range(run.batch[1]) \cup Range(run.batch[2]) : ~ InFinalFile(p)}

\* C24: when the two runs do not overlap and both calls return True, the
\* final file holds the papers the bucket held before and every paper of
\* both runs' batches (or the paper it duplicates).  The lost update of
\* overlapping runs is the state C24_Witness describes.
C24_NoLossWithoutOverlap ==
    (BothAppended /\ ~ run.overlapped) =>
        /\ LostPapers = {}
        /\ IsPrefix(run.before.data, StoredNow)

\* C24 witness: the two runs overlapped, both calls returned True, and a
\* paper one of them appended is missing from the final file
C24_Witness ==
    /\ BothAppended
    /\ run.overlapped
    /\ LostPapers # {}


(***************************************************************************)
(* paper_filter.py: the stages and the list they are given                 *)
(***************************************************************************)
\* filter_by_categories(papers, categories)
filter_by_categories(ps, categories) ==
    IF categories = <<>> THEN ps
    ELSE LET categories_set == {lower(categories[i]) : i \in DOMAIN categories}
         IN  SelectSeq(ps, LAMBDA paper :
                 \E k \in DOMAIN paper.categories :
                     lower(paper.categories[k]) \in categories_set)

\* filter_by_conference(papers, conferences)
filter_by_conference(ps, conferences) ==
    IF conferences = <<>> THEN ps
    ELSE LET conferences_set == {lower(conferences[i]) : i \in DOMAIN conferences}
         IN  SelectSeq(ps, LAMBDA paper :
                 /\ Truthy(paper.conference)
                 /\ lower(paper.conference.val) \in conferences_set)

\* a call of a stage: the stage and its arguments besides the papers
DefaultCall ==
    [stage |-> "deduplicate_papers", keywords |-> <<>>, categories |-> <<>>,
     conferences |-> <<>>, min_date |-> None, max_date |-> None,
     sort_by |-> "date", reverse |-> TRUE, limit |-> papers_per_day]

\* what the stage returns
stage_value(call, ps) ==
    CASE call.stage = "filter_by_keywords" -> filter_by_keywords(ps, call.keywords, "any")
      [] call.stage = "filter_by_categories" -> filter_by_categories(ps, call.categories)
      [] call.stage = "filter_by_conference" -> filter_by_conference(ps, call.conferences)
      [] call.stage = "filter_by_date" -> filter_by_date(ps, call.min_date, call.max_date)
      [] call.stage = "sort_papers" -> sort_papers(ps, call.sort_by, call.reverse)
      [] call.stage = "limit_papers" -> limit_papers(ps, call.limit)
      [] OTHER -> deduplicate_papers(ps)

\* whether the stage leaves through a "return papers": the value it returns
\* is then the list object it was given, not a list it built
returns_papers(call) ==
    CASE call.stage = "filter_by_keywords" -> call.keywords = <<>>
      [] call.stage = "filter_by_categories" -> call.categories = <<>>
      [] call.stage = "filter_by_conference" -> call.conferences = <<>>
      [] call.stage = "filter_by_date" -> call.min_date = None /\ call.max_date = None
      [] call.stage = "sort_papers" -> call.sort_by \notin {"date", "title", "authors"}
      [] OTHER -> FALSE

\* a faulty variant of argument_after: the papers are sorted with list.sort()
argument_after_sort_in_place(call, ps) ==
    IF call.stage = "sort_papers" THEN stage_value(call, ps) ELSE ps

\* the content of the list the stage was given, after the call: no stage
\* assigns to an item or a field of papers or calls a method that changes it
\* (the filters append to a list of their own, sorted() and papers[:limit]
\* build a list)
argument_after(call, ps) == ps

\* a paper with the keys the stages read
StagePaper(id, title, summary, published_date, conference, categories) ==
    [id |-> id, title |-> title, summary |-> summary, authors |-> <<>>,
     published_date |-> published_date, conference |-> conference,
     categories |-> categories]
StagePapers ==
    {StagePaper(IdX, TitleU, <<"t">>, None, None, <<(<<"b">>)>>),
     StagePaper(IdX, TitleT, <<>>, Datetime(1), None, <<(<<"A">>)>>),
     StagePaper(IdY, TitleU, <<>>, Datetime(-1), Str(<<"T">>), <<>>)}

\* the calls: each stage with arguments that make it return early and
\* arguments that make it do its work
StageCalls ==
    {[DefaultCall EXCEPT !.stage = "filter_by_keywords", !.keywords = k] :
        k \in {<<>>, ConfigKeywords}}
    \cup {[DefaultCall EXCEPT !.stage = "filter_by_categories", !.categories = c] :
        c \in {<<>>, <<(<<"a">>)>>}}
    \cup {[DefaultCall EXCEPT !.stage = "filter_by_conference", !.conferences = c] :
        c \in {<<>>, <<(<<"t">>)>>}}
    \cup {[DefaultCall EXCEPT !.stage = "filter_by_date", !.min_date = d] :
        d \in {None, Datetime(0)}}
    \cup {[DefaultCall EXCEPT !.stage = "sort_papers", !.sort_by = sb, !.reverse = rev] :
        sb \in SortKeys, rev \in BOOLEAN}
    \cup {[DefaultCall EXCEPT !.stage = "limit_papers", !.limit = n] :
        n \in {0, 1, papers_per_day}}
    \cup {DefaultCall}

\* papers is the content of the list the stage is given; run.before keeps
\* what it was before the call, run.same_list tells whether the value
\* returned is that very list
InitStages ==
    /\ op = "start"
    /\ papers \in SeqsUpTo(StagePapers, MaxPapers)
    /\ args \in StageCalls
    /\ run = [before |-> papers, same_list |-> FALSE]
    /\ files = [p \in Paths |-> NoFile]
    /\ filepath \in StoragePaths
    /\ date = Ymd(2025, 1, 2)
    /\ keywords = <<>>
    /\ match_type = "any"
    /\ sort_by = "date"
    /\ reverse = TRUE
    /\ prior = NoFile
    /\ ret = <<>>
    /\ exc = "none"

\* a call of a stage on the list
CallStage ==
    /\ op = "start"
    /\ op' = args.stage
    /\ ret' = stage_value(args, papers)
    /\ papers' = argument_after(args, papers)
    /\ run' = [before |-> papers, same_list |-> returns_papers(args)]
    /\ UNCHANGED <<files, filepath, date, keywords, match_type, sort_by, reverse,
                   prior, exc, args>>

SpecStages == InitStages /\ [][CallStage]_vars

(***************************************************************************)
(* Claims on the stages and their argument                                 *)
(***************************************************************************)
StageDone == op # "start"

PassThrough ==
    \/ args.stage = "filter_by_keywords" /\ Len(args.keywords) = 0
    \/ args.stage = "filter_by_categories" /\ Len(args.categories) = 0
    \/ args.stage = "filter_by_conference" /\ Len(args.conferences) = 0
    \/ args.stage = "filter_by_date" /\ {args.min_date, args.max_date} = {None}
    \/ args.stage = "sort_papers" /\ args.sort_by = "relevance"

NextAppend == AppendPapers \/ LoadStored

SpecAppend == Init /\ [][NextAppend]_vars

\* the papers the file holds
StoredPapers == files[filepath].data

\* C26: starting from no file, after any sequence of append_papers calls, no
\* two papers stored in the file have the same truthy id and no two have the
\* same non-empty title.
C26_NoDuplicateStored ==
    \A i, j \in DOMAIN StoredPapers :
        i < j => (~ SameId(StoredPapers[i], StoredPapers[j])
                  /\ ~ SameTitle(StoredPapers[i], StoredPapers[j]))

\* C26 witness: on a file that holds papers, a batch of two papers that
\* share an id or a title and match no stored paper has added one paper, and
\* the file holds three papers or more
C26_Witness ==
    /\ AppendDone
    /\ Len(prior.data) >= 2
    /\ Len(papers) = 2
    /\ Matches(papers[1], papers[2])
    /\ \A q \in Range(prior.data) : ~ Matches(papers[1], q)
    /\ Len(StoredPapers) = Len(prior.data) + 1


(***************************************************************************)
(* Claims on dates that share a year and a week number                     *)
(***************************************************************************)
\* two dates of one calendar year that carry one ISO week number
SameYearAndWeekNumber(d, e) ==
    d.year = e.year /\ isocalendar(d).week = isocalendar(e).week

SummaryMade == run.weekly_summary # <<>>

\* the bucket of the run date as it reads now
BucketNow == load_papers(files[BucketOf[date]]).val

\* C28: in a full run on the summary day the bucket is read for the summary
\* (step 7) before this run's papers are appended to it (step 8): the papers
\* given to the summary are the bucket as earlier runs left it, and a paper
\* step 8 then adds to the bucket is not among them.
C28_SummaryReadsBeforeAppend ==
    /\ (run.pc = "save_weekly_papers" /\ SummaryMade) =>
        (run.written \cap {"bucket"} = {} /\ run.weekly_papers = BucketNow)
    /\ (op = "save_weekly_papers" /\ SummaryMade) =>
        /\ run.weekly_papers = load_papers(prior).val
        /\ ret = TRUE =>
            \A k \in (Len(run.weekly_papers) + 1)..Len(BucketNow) :
                BucketNow[k] \notin Range(run.weekly_papers)

\* C28 witness: on the summary day the bucket held a paper of an earlier run,
\* the LLM summarised that paper alone, and step 8 then appended a paper
\* this run fetched
C28_Witness ==
    /\ op = "save_weekly_papers" /\ ret = TRUE
    /\ run.weekly_summary = LlmText
    /\ Len(run.weekly_papers) = 1
    /\ Len(BucketNow) = 2
    /\ BucketNow[2] \in Range(json_dump(run.arxiv_filtered))
    /\ BucketNow[2] \notin Range(run.weekly_papers)


(***************************************************************************)
(* C29: step 9 and step 10 of a full run, the archive entry and README.md  *)
(***************************************************************************)
\* a full run has ended that started with a README.md present: the document
\* of before the run is the README.md the write of step 10 found
FullRunOverReadme ==
    /\ op = "generate_readme"
    /\ run.exit = "complete"
    /\ prior.kind # "missing"

\* C29 (as claimed): in every full run that starts with a README.md present,
\* after the run the archive entry of the run date holds the document of
\* before the run and README.md holds the newly generated document.
C29_PreviousReadmeArchived ==
    FullRunOverReadme =>
        /\ run.archive = prior
        /\ run.readme = TextFile(ret)


(***************************************************************************)
(* C30: filter_by_keywords with a keyword list of blank keywords only      *)
(***************************************************************************)
\* the keyword list has a keyword, and every keyword is empty or spaces only
OnlyBlankKeywords ==
    /\ keywords # <<>>
    /\ \A k \in DOMAIN keywords : \A i \in DOMAIN keywords[k] : keywords[k][i] = " "

\* C30: when the keyword list is non-empty but every keyword is empty or
\* whitespace-only, filter_by_keywords returns the empty list with match_type
\* "any" and every input paper, in order, with match_type "all".
C30_BlankKeywordsAnyNoneAllEvery ==
    (FilterDone /\ OnlyBlankKeywords) =>
        /\ match_type = "any" => ret = <<>>
        /\ match_type = "all" => ret = papers

\* C30 witness: two papers filtered with an empty and a blank keyword under
\* match_type "any" give the empty list, which is not the input
C30_Witness ==
    /\ FilterDone
    /\ keywords = <<(<<>>), (<<" ">>)>>
    /\ match_type = "any"
    /\ Len(papers) = 2
    /\ ret = <<>>
    /\ ret # papers

====
